---------------------------- MODULE Spec2Model ----------------------------
(***************************************************************************)
(* A model of the marshalling layer of challonge-rs: the scalar codec      *)
(* (MatchScore, MatchScores, TournamentId), the object unwrapping helpers  *)
(* (into_map, remove) and the four entity decoders (Tournament,            *)
(* Participant, Match, Attachment).                                        *)
(*                                                                         *)
(* Strings are TLA+ strings; a character is a string of length one.        *)
(* Rust's Result is a record with a tag "Ok" or "Err"; a panic (an         *)
(* unwrap() of None or of Err) is the outcome with the tag "Panic".        *)
(***************************************************************************)
EXTENDS Integers, Sequences, FiniteSets, TLC

VARIABLES
    string,     \* the &str handed to MatchScore::decode / MatchScores::decode
    typed,      \* how many characters were appended to the starting string
    score,      \* the result of MatchScore::decode(string), or NotRun
    shown,      \* the Display rendering of the decoded MatchScore, or NotRun
    scores,     \* the result of MatchScores::decode(string), or NotRun
    shownList,  \* the Display rendering of the decoded MatchScores, or NotRun
    fedFrom,    \* the MatchScore whose rendering became `string`, or NotRun
    tid,        \* a TournamentId value
    tidText,    \* the Display rendering of tid, or NotRun
    entity,     \* which entity decoder is called on the payload
    payload,    \* the JSON value handed to the decoder
    edits,      \* how many changes were made to the sample payload
    outcome,    \* the result of the decoder, or NotRun
    indexOf,    \* the entity whose Index::decode is called
    array,      \* the JSON value handed to Index::decode
    collection, \* the result of Index::decode, or NotRun
    builderType, \* the Create/Update structure under construction
    built,      \* the fields of that structure
    called,     \* the builder methods called on it since new()
    lastArg,    \* the argument of the last call of each method called
    batch,      \* the Vec<ParticipantCreate> for create_participant_bulk
    pairs,      \* the FieldPairs made of the structure, or NotRun
    redecoded,  \* MatchScores::decode of the encoded scores_csv, or NotRun
    enumOf,     \* the enumeration in use: TournamentType or MatchState
    enumText,   \* the &str handed to from_str
    enumParsed, \* the result of from_str(enumText), or NotRun
    enumValue,  \* a variant of the enumeration, or NotRun
    enumShown,  \* the Display rendering of enumValue, or NotRun
    enumParam,  \* to_get_param of enumValue, or NotRun
    enumFrom,   \* the variant whose rendering became enumText, or NotRun
    httpStatus, \* the status code of a non-success response
    httpBody,   \* the body of that response
    converted,  \* Error::from(response), or NotRun
    sent,       \* the outcomes of the sends made by retry, in order
    result,     \* what retry returned, or NotRun
    extras,     \* keys added to the payload that the decoder does not read
    twinOutcome \* the result of the decoder on the payload with the extras

codecVars  == <<string, typed, score, shown, scores, shownList, fedFrom>>
tidVars    == <<tid, tidText>>
decodeVars == <<entity, payload, edits, outcome>>
indexVars  == <<indexOf, array, collection>>
buildVars  == <<builderType, built, called, lastArg, batch, pairs, redecoded>>
enumVars   == <<enumOf, enumText, enumParsed, enumValue, enumShown, enumParam,
                enumFrom>>
errorVars  == <<httpStatus, httpBody, converted>>
retryVars  == <<sent, result>>
extraVars  == <<extras, twinOutcome>>
restVars   == <<enumVars, errorVars, retryVars, extraVars>>
vars       == <<string, typed, score, shown, scores, shownList, fedFrom,
                tid, tidText, entity, payload, edits, outcome,
                indexOf, array, collection,
                builderType, built, called, lastArg, batch, pairs, redecoded,
                enumOf, enumText, enumParsed, enumValue, enumShown, enumParam,
                enumFrom, httpStatus, httpBody, converted, sent, result,
                extras, twinOutcome>>

-----------------------------------------------------------------------------
(* Bounds of the model. *)

\* characters appended to a starting string
MaxTyped == 3
\* characters of a subdomain or of a slug
MaxName == 2
\* largest numeric tournament id that is rendered
MaxId == 12
\* changes made to a sample payload before it is decoded
MaxEdits == 1
\* elements of the array handed to Index::decode
MaxElems == 2
\* the score list of a MatchUpdate holds at most MaxScores scores
MaxScores == 2
\* at most MaxSetters distinct setters are called on a structure
MaxSetters == 2
\* participants in the Vec handed to create_participant_bulk
MaxBatch == 1
\* the longest list of validation errors in a response
MaxErrors == 2
\* keys in which the second payload differs from the first
MaxExtras == 2

-----------------------------------------------------------------------------
(* Results and options. *)

NotRun == [tag |-> "NotRun"]
Ok(v) == [tag |-> "Ok", val |-> v]
Err(d, v) == [tag |-> "Err", variant |-> "Decode", desc |-> d, val |-> v]
Panic == [tag |-> "Panic"]
\* the value returned by a call that does not return a Result
Ret(v) == [tag |-> "Ret", val |-> v]
None == [opt |-> "None"]
Some(v) == [opt |-> "Some", v |-> v]

\* the scalar codec is not in use
CodecAtRest ==
    /\ string = "" /\ typed = 0
    /\ score = NotRun /\ shown = NotRun
    /\ scores = NotRun /\ shownList = NotRun /\ fedFrom = NotRun

\* no TournamentId is rendered
TidAtRest == tid = [variant |-> "Id", id |-> 0] /\ tidText = NotRun

\* no entity decoder is called
DecodeAtRest ==
    entity = "none" /\ payload = NotRun /\ edits = 0 /\ outcome = NotRun

\* no Index::decode is under way
IndexAtRest == indexOf = "none" /\ array = NotRun /\ collection = NotRun

\* no Create/Update structure is under construction
BuildAtRest ==
    /\ builderType = "none" /\ built = NotRun /\ called = {}
    /\ lastArg = <<>> /\ batch = <<>>
    /\ pairs = NotRun /\ redecoded = NotRun

\* no from_str and no rendering of an enumeration is under way
EnumAtRest ==
    /\ enumOf = "none" /\ enumText = "" /\ enumParsed = NotRun
    /\ enumValue = NotRun /\ enumShown = NotRun /\ enumParam = NotRun
    /\ enumFrom = NotRun

\* no response is converted into an Error
ErrorAtRest == httpStatus = 0 /\ httpBody = NotRun /\ converted = NotRun

\* retry is not called
RetryAtRest == sent = <<>> /\ result = NotRun

\* no payload is decoded next to its twin
ExtraAtRest == extras = NotRun /\ twinOutcome = NotRun

RestAtRest == EnumAtRest /\ ErrorAtRest /\ RetryAtRest /\ ExtraAtRest

-----------------------------------------------------------------------------
(* The string primitives of the standard library that the codec uses. *)

Char(s, i) == SubSeq(s, i, i)

\* char::is_whitespace, restricted to the ASCII white space
IsWhitespace(c) == c \in {" ", "\t", "\n", "\r"}

RECURSIVE TrimStart(_)
TrimStart(s) ==
    IF Len(s) > 0 /\ IsWhitespace(Char(s, 1))
    THEN TrimStart(SubSeq(s, 2, Len(s)))
    ELSE s

RECURSIVE TrimEnd(_)
TrimEnd(s) ==
    IF Len(s) > 0 /\ IsWhitespace(Char(s, Len(s)))
    THEN TrimEnd(SubSeq(s, 1, Len(s) - 1))
    ELSE s

\* str::trim
Trim(s) == TrimEnd(TrimStart(s))

\* the position of the first occurrence of the character c in s at or after
\* position i, or 0 when there is none
RECURSIVE Find(_, _, _)
Find(s, c, i) ==
    IF i > Len(s) THEN 0
    ELSE IF Char(s, i) = c THEN i
    ELSE Find(s, c, i + 1)

\* str::split(sep), collected: the substrings between the occurrences of sep;
\* always at least one part
RECURSIVE Split(_, _)
Split(s, sep) ==
    LET p == Find(s, sep, 1) IN
    IF p = 0 THEN <<s>>
    ELSE <<SubSeq(s, 1, p - 1)>> \o Split(SubSeq(s, p + 1, Len(s)), sep)

Digits == <<"0", "1", "2", "3", "4", "5", "6", "7", "8", "9">>
IsDigit(c) == \E d \in 1..10 : Digits[d] = c
DigitVal(c) == (CHOOSE d \in 1..10 : Digits[d] = c) - 1

RECURSIVE ParseDigits(_, _)
ParseDigits(s, acc) ==
    IF Len(s) = 0 THEN Some(acc)
    ELSE IF ~IsDigit(Char(s, 1)) THEN None
    ELSE ParseDigits(SubSeq(s, 2, Len(s)), acc * 10 + DigitVal(Char(s, 1)))

\* str::parse::<u64>: an optional '+' followed by one or more decimal digits;
\* None stands for Err(ParseIntError).  The strings of the model are too
\* short to overflow 64 bits.
ParseU64(s) ==
    IF Len(s) = 0 THEN None
    ELSE IF Char(s, 1) = "+"
         THEN IF Len(s) = 1 THEN None ELSE ParseDigits(SubSeq(s, 2, Len(s)), 0)
    ELSE ParseDigits(s, 0)

\* Option::unwrap_or
UnwrapOr(o, d) == IF o.opt = "Some" THEN o.v ELSE d

\* u64::to_string
RECURSIVE u64_to_string(_)
u64_to_string(n) ==
    IF n < 10 THEN Digits[n + 1]
    ELSE u64_to_string(n \div 10) \o Digits[(n % 10) + 1]

-----------------------------------------------------------------------------
(* matches.rs: MatchScore and MatchScores. *)

MatchScore(a, b) == <<a, b>>

\* Iterator::next on the parts of a split: the i-th part, if there is one
NextPart(parts, i) == IF i <= Len(parts) THEN Some(parts[i]) ELSE None

\* MatchScore::decode with try! in place of unwrap_or(0)
MatchScore_decode_strict(str) ==
    LET parts == Split(Trim(str), "-")
        a == ParseU64(Trim(UnwrapOr(NextPart(parts, 1), "")))
        b == ParseU64(Trim(UnwrapOr(NextPart(parts, 2), "")))
    IN  IF a = None \/ b = None THEN Err("Invalid score", str)
        ELSE Ok(MatchScore(a.v, b.v))

\* MatchScore::decode with splitn(2, '-') in place of split('-')
MatchScore_decode_splitn(str) ==
    LET s == Trim(str)
        d == Find(s, "-", 1)
        parts == IF d = 0 THEN <<s>>
                 ELSE <<SubSeq(s, 1, d - 1), SubSeq(s, d + 1, Len(s))>>
    IN  Ok(MatchScore(
            UnwrapOr(ParseU64(Trim(UnwrapOr(NextPart(parts, 1), ""))), 0),
            UnwrapOr(ParseU64(Trim(UnwrapOr(NextPart(parts, 2), ""))), 0)))

MatchScore_decode(str) ==
    LET parts == Split(Trim(str), "-") IN
    Ok(MatchScore(
        UnwrapOr(ParseU64(Trim(UnwrapOr(NextPart(parts, 1), ""))), 0),
        UnwrapOr(ParseU64(Trim(UnwrapOr(NextPart(parts, 2), ""))), 0)))

\* Display with the two scores in the wrong order
MatchScore_fmt_swapped(ms) == u64_to_string(ms[2]) \o "-" \o u64_to_string(ms[1])

MatchScore_fmt(ms) == u64_to_string(ms[1]) \o "-" \o u64_to_string(ms[2])

\* MatchScores::decode that skips the empty segments
RECURSIVE DecodeParts_skipEmpty(_)
DecodeParts_skipEmpty(parts) ==
    IF Len(parts) = 0 THEN <<>>
    ELSE (IF Trim(Head(parts)) = "" THEN <<>>
          ELSE <<MatchScore_decode(Trim(Head(parts))).val>>)
         \o DecodeParts_skipEmpty(Tail(parts))

RECURSIVE DecodeParts(_)
DecodeParts(parts) ==
    IF Len(parts) = 0 THEN <<>>
    ELSE LET r == MatchScore_decode(Trim(Head(parts))) IN
         (IF r.tag = "Ok" THEN <<r.val>> ELSE <<>>) \o DecodeParts(Tail(parts))

MatchScores_decode(str) == DecodeParts(Split(str, ","))

\* Display that joins the scores with a semicolon
RECURSIVE MatchScores_fmt_semicolon(_)
MatchScores_fmt_semicolon(list) ==
    IF Len(list) = 0 THEN ""
    ELSE IF Len(list) = 1 THEN MatchScore_fmt(list[1])
    ELSE MatchScore_fmt(list[1]) \o ";" \o MatchScores_fmt_semicolon(Tail(list))

RECURSIVE MatchScores_fmt(_)
MatchScores_fmt(list) ==
    IF Len(list) = 0 THEN ""
    ELSE IF Len(list) = 1 THEN MatchScore_fmt(list[1])
    ELSE MatchScore_fmt(list[1]) \o "," \o MatchScores_fmt(Tail(list))

-----------------------------------------------------------------------------
(* tournament.rs: TournamentId. *)

TournamentId_Url(subdomain, tournament_url) ==
    [variant |-> "Url", subdomain |-> subdomain, url |-> tournament_url]
TournamentId_Id(n) == [variant |-> "Id", id |-> n]

\* Display without the case of the empty subdomain
TournamentId_fmt_dashed(t) ==
    IF t.variant = "Url"
    THEN t.subdomain \o "-" \o t.url
    ELSE u64_to_string(t.id)

TournamentId_fmt(t) ==
    IF t.variant = "Url"
    THEN IF Len(t.subdomain) = 0
         THEN t.url
         ELSE t.subdomain \o "-" \o t.url
    ELSE u64_to_string(t.id)

-----------------------------------------------------------------------------
(* serde_json::Value and its accessors. *)

Null == [kind |-> "Null"]
Bool(b) == [kind |-> "Bool", b |-> b]
I64(n) == [kind |-> "I64", n |-> n]
U64(n) == [kind |-> "U64", n |-> n]
F64(x) == [kind |-> "F64", x |-> x]
String(s) == [kind |-> "String", s |-> s]
Array(a) == [kind |-> "Array", a |-> a]
Object(m) == [kind |-> "Object", m |-> m]

\* an f64 that a short decimal spells: mant * 10^exp, exp <= 0, without
\* trailing zeros in the fraction
Float(mant, exp) == [mant |-> mant, exp |-> exp]

\* as_u64 with an `as` cast of the signed number, which wraps
as_u64_cast(v) ==
    IF v.kind = "U64" THEN Some(v.n)
    ELSE IF v.kind = "I64" THEN Some(IF v.n >= 0 THEN v.n ELSE 2147483647 + v.n)
    ELSE None

\* Value::as_u64: the number if the value is an integer that fits u64
as_u64(v) ==
    IF v.kind = "U64" THEN Some(v.n)
    ELSE IF v.kind = "I64" /\ v.n >= 0 THEN Some(v.n)
    ELSE None

\* Value::as_boolean
as_boolean(v) == IF v.kind = "Bool" THEN Some(v.b) ELSE None

\* as_string that takes the empty string for an absent one
as_string_nonempty(v) ==
    IF v.kind = "String" /\ v.s # "" THEN Some(v.s) ELSE None

\* Value::as_string
as_string(v) == IF v.kind = "String" THEN Some(v.s) ELSE None

-----------------------------------------------------------------------------
(* util.rs: into_map and remove.  A BTreeMap<String, Value> is a function   *)
(* from its keys to their values.                                           *)

\* into_map by as_object().unwrap()
into_map_unwrap(value) ==
    IF value.kind = "Object" THEN Ok(value.m)
    ELSE Panic

\* into_map whose error does not carry the value
into_map_noecho(value) ==
    IF value.kind = "Object" THEN Ok(value.m)
    ELSE Err("Expected object", Null)

into_map(value) ==
    IF value.kind = "Object" THEN Ok(value.m)
    ELSE Err("Expected object", value)

\* remove by map.remove(key).unwrap_or(Value::Null)
remove_or_null(map, key) ==
    [res |-> Ok(IF key \in DOMAIN map THEN map[key] ELSE Null),
     map |-> [k \in DOMAIN map \ {key} |-> map[k]]]

\* remove whose error carries the map in place of the key
remove_echoMap(map, key) ==
    IF key \in DOMAIN map
    THEN [res |-> Ok(map[key]),
          map |-> [k \in DOMAIN map \ {key} |-> map[k]]]
    ELSE [res |-> Err("Unexpected absent key", Object(map)), map |-> map]

\* remove takes the map by &mut: the result carries the map after the call
remove(map, key) ==
    IF key \in DOMAIN map
    THEN [res |-> Ok(map[key]),
          map |-> [k \in DOMAIN map \ {key} |-> map[k]]]
    ELSE [res |-> Err("Unexpected absent key", String(key)), map |-> map]

\* collect() that gathers the results in reverse
collect_reversed(results) ==
    IF \E i \in 1..Len(results) : results[i].tag # "Ok"
    THEN results[CHOOSE i \in 1..Len(results) :
                     /\ results[i].tag # "Ok"
                     /\ \A j \in 1..(i - 1) : results[j].tag = "Ok"]
    ELSE Ok([i \in 1..Len(results) |-> results[Len(results) + 1 - i].val])

\* filter_map(Result::ok).collect(): the elements that failed are left out
RECURSIVE collect_skip(_)
collect_skip(results) ==
    IF Len(results) = 0 THEN Ok(<<>>)
    ELSE IF Head(results).tag = "Panic" THEN Panic
    ELSE IF Head(results).tag = "Err" THEN collect_skip(Tail(results))
    ELSE LET rest == collect_skip(Tail(results)) IN
         IF rest.tag # "Ok" THEN rest
         ELSE Ok(<<Head(results).val>> \o rest.val)

\* Iterator::collect into Result<Vec<T>, Error>: the elements are decoded
\* in order up to the first that is not Ok, whose Err is returned (a panic
\* of the decoder unwinds through the call); Ok of all the values otherwise
collect(results) ==
    IF \E i \in 1..Len(results) : results[i].tag # "Ok"
    THEN results[CHOOSE i \in 1..Len(results) :
                     /\ results[i].tag # "Ok"
                     /\ \A j \in 1..(i - 1) : results[j].tag = "Ok"]
    ELSE Ok([i \in 1..Len(results) |-> results[i].val])

\* f is the decoder of the elements, a function of the JSON value
decode_array(value, f) ==
    IF value.kind = "Array"
    THEN collect([i \in 1..Len(value.a) |-> f[value.a[i]]])
    ELSE Err("Error decoding object", value)

-----------------------------------------------------------------------------
(* chrono and the number parsers of the standard library. *)

Between(s, i, j, lo, hi) ==
    /\ Len(s) >= j
    /\ \A p \in i..j : IsDigit(Char(s, p))
    /\ LET n == UnwrapOr(ParseDigits(SubSeq(s, i, j), 0), 0) IN lo <= n /\ n <= hi

\* the text after the seconds of an RFC 3339 timestamp: an optional
\* fraction, then "Z" or a numeric offset
IsRfc3339Tail(t) ==
    LET fracLen == IF Len(t) > 0 /\ Char(t, 1) = "."
                   THEN CHOOSE n \in 1..Len(t) :
                            /\ \A p \in 2..n : IsDigit(Char(t, p))
                            /\ (n = Len(t) \/ ~IsDigit(Char(t, n + 1)))
                   ELSE 0
        off == SubSeq(t, fracLen + 1, Len(t))
    IN  /\ fracLen # 1
        /\ \/ off \in {"Z", "z"}
           \/ /\ Len(off) = 6
              /\ Char(off, 1) \in {"+", "-"}
              /\ Between(off, 2, 3, 0, 23)
              /\ Char(off, 4) = ":"
              /\ Between(off, 5, 6, 0, 59)

IsRfc3339(s) ==
    /\ Len(s) >= 20
    /\ Between(s, 1, 4, 0, 9999)
    /\ Char(s, 5) = "-"
    /\ Between(s, 6, 7, 1, 12)
    /\ Char(s, 8) = "-"
    /\ Between(s, 9, 10, 1, 31)
    /\ Char(s, 11) \in {"T", "t"}
    /\ Between(s, 12, 13, 0, 23)
    /\ Char(s, 14) = ":"
    /\ Between(s, 15, 16, 0, 59)
    /\ Char(s, 17) = ":"
    /\ Between(s, 18, 19, 0, 60)
    /\ IsRfc3339Tail(SubSeq(s, 20, Len(s)))

\* DateTime::parse_from_rfc3339: the timestamp the text spells, or a
\* ParseError (None)
parse_from_rfc3339(s) ==
    IF IsRfc3339(s)
    THEN Some([date |-> SubSeq(s, 1, 10), time |-> SubSeq(s, 12, Len(s))])
    ELSE None

RECURSIVE StripZeros(_)
StripZeros(s) ==
    IF Len(s) > 0 /\ Char(s, Len(s)) = "0"
    THEN StripZeros(SubSeq(s, 1, Len(s) - 1))
    ELSE s

\* str::parse::<f64> on plain decimals: digits with an optional fraction
ParseF64(s) ==
    LET dot == Find(s, ".", 1)
        int == IF dot = 0 THEN s ELSE SubSeq(s, 1, dot - 1)
        frac == IF dot = 0 THEN "" ELSE StripZeros(SubSeq(s, dot + 1, Len(s)))
        i == ParseDigits(int, 0)
        f == ParseDigits(frac, 0)
    IN  IF Len(s) = 0 \/ s = "." \/ i = None \/ f = None THEN None
        ELSE Some(Float(i.v * (IF Len(frac) = 0 THEN 1
                               ELSE IF Len(frac) = 1 THEN 10
                               ELSE IF Len(frac) = 2 THEN 100 ELSE 1000) + f.v,
                        0 - Len(frac)))

-----------------------------------------------------------------------------
(* The enumerations decoded from strings. *)

\* impl FromStr for MatchState
MatchState_from_str(s) ==
    IF s = "all" THEN Some("All")
    ELSE IF s = "pending" THEN Some("Pending")
    ELSE IF s = "open" THEN Some("Open")
    ELSE IF s = "complete" THEN Some("Complete")
    ELSE None

\* impl FromStr for TournamentType
TournamentType_from_str(s) ==
    IF s = "single_elimination" THEN Some("SingleElimination")
    ELSE IF s = "single elimination" THEN Some("SingleElimination")
    ELSE IF s = "double_elimination" THEN Some("DoubleElimination")
    ELSE IF s = "double elimination" THEN Some("DoubleElimination")
    ELSE IF s = "round_robin" THEN Some("RoundRobin")
    ELSE IF s = "round robin" THEN Some("RoundRobin")
    ELSE IF s = "swiss" THEN Some("Swiss")
    ELSE None

-----------------------------------------------------------------------------
(* The field expressions of the struct literals of the decoders.  A field   *)
(* is read in two steps: remove(map, key), which returns early with Err     *)
(* when the key is absent (try! or ?), and the accessor chain applied to    *)
(* the removed value, named by `how`.                                       *)

Field(field, key, how) == [field |-> field, key |-> key, how |-> how]

\* DateTime::parse_from_rfc3339(..).unwrap()
UnwrapDate(d) == IF d = None THEN Panic ELSE Ok(d.v)

\* the accessor chain `how` applied to the removed value v: Ok(field value),
\* or Panic when an unwrap() meets None or Err
Coerce(how, v) ==
    CASE how = "as_boolean().unwrap_or(false)" ->
             Ok(UnwrapOr(as_boolean(v), FALSE))
      [] how = "as_u64().unwrap_or(0)" ->
             Ok(UnwrapOr(as_u64(v), 0))
      [] how = "as_u64().unwrap()" ->
             IF as_u64(v) = None THEN Panic ELSE Ok(as_u64(v).v)
      [] how = "as_u64()" ->
             Ok(as_u64(v))
      [] how = "as_string().unwrap_or(\"\")" ->
             Ok(UnwrapOr(as_string(v), ""))
      [] how = "as_string().map_or(None, Some)" ->
             Ok(as_string(v))
      [] how = "parse_from_rfc3339(as_string().unwrap_or(\"\")).unwrap()" ->
             UnwrapDate(parse_from_rfc3339(UnwrapOr(as_string(v), "")))
      [] how = "parse_from_rfc3339(as_string().unwrap()).unwrap()" ->
             IF as_string(v) = None THEN Panic
             ELSE UnwrapDate(parse_from_rfc3339(as_string(v).v))
      [] how = "if let Some(s) = as_string() { parse_from_rfc3339(s).ok() }" ->
             Ok(IF as_string(v) = None THEN None
                ELSE parse_from_rfc3339(as_string(v).v))
      [] how = "MatchState::from_str(as_string().unwrap_or(\"\")).unwrap_or(All)" ->
             Ok(UnwrapOr(MatchState_from_str(UnwrapOr(as_string(v), "")), "All"))
      [] how = "TournamentType::from_str(as_string().unwrap_or(\"\")).unwrap_or(SingleElimination)" ->
             Ok(UnwrapOr(TournamentType_from_str(UnwrapOr(as_string(v), "")),
                         "SingleElimination"))
      [] how = "TournamentId::Id(as_u64().unwrap_or(0))" ->
             Ok(TournamentId_Id(UnwrapOr(as_u64(v), 0)))
      [] how = "TournamentId::Id(as_u64().unwrap())" ->
             IF as_u64(v) = None THEN Panic ELSE Ok(TournamentId_Id(as_u64(v).v))
      [] how = "MatchScores::decode(as_string().unwrap_or(\"\"))" ->
             Ok(MatchScores_decode(UnwrapOr(as_string(v), "")))
      [] how = "as_string().unwrap_or(\"\").parse::<f64>().unwrap_or(0f64)" ->
             Ok(UnwrapOr(ParseF64(UnwrapOr(as_string(v), "")), Float(0, 0)))
      [] how = "as_string().unwrap_or(\"\").parse::<f64>().ok()" ->
             Ok(ParseF64(UnwrapOr(as_string(v), "")))

\* the state of a struct literal under evaluation: the map behind &mut, the
\* fields built so far, and how the evaluation stands ("Run", or the Err or
\* Panic that ended it)
Going(map, out) == [map |-> map, out |-> out, res |-> Ok("Run")]

\* one field expression `field: coerce(remove(map, key)?)`
ReadField(st, f) ==
    LET r == remove(st.map, f.key) IN
    IF r.res.tag = "Err" THEN [st EXCEPT !.res = r.res]
    ELSE LET c == Coerce(f.how, r.res.val) IN
         IF c.tag = "Panic" THEN [st EXCEPT !.map = r.map, !.res = Panic]
         ELSE [map |-> r.map, out |-> (f.field :> c.val) @@ st.out, res |-> st.res]

\* the field expressions of a struct literal, in source order; the first Err
\* or Panic ends the evaluation
RECURSIVE ReadFields(_, _)
ReadFields(st, fields) ==
    IF Len(fields) = 0 \/ st.res.tag # "Ok" THEN st
    ELSE ReadFields(ReadField(st, Head(fields)), Tail(fields))

\* the Result of a finished struct literal and the map it leaves
Finish(st) ==
    [res |-> IF st.res.tag = "Ok" THEN Ok(st.out) ELSE st.res, map |-> st.map]

Empty == [k \in {} |-> Null]

-----------------------------------------------------------------------------
(* matches.rs: Player::decode and Match::decode. *)

\* PlayerFields with votes read like the id of a Match
PlayerFields_votesUnwrap(prefix) == <<
    Field("id", prefix \o "id",
          "as_u64().unwrap_or(0)"),
    Field("is_prereq_match_loser", prefix \o "is_prereq_match_loser",
          "as_boolean().unwrap_or(false)"),
    Field("prereq_match_id", prefix \o "prereq_match_id",
          "as_u64()"),
    Field("votes", prefix \o "votes",
          "as_u64().unwrap()") >>

PlayerFields(prefix) == <<
    Field("id", prefix \o "id",
          "as_u64().unwrap_or(0)"),
    Field("is_prereq_match_loser", prefix \o "is_prereq_match_loser",
          "as_boolean().unwrap_or(false)"),
    Field("prereq_match_id", prefix \o "prereq_match_id",
          "as_u64()"),
    Field("votes", prefix \o "votes",
          "as_u64().unwrap_or(0)") >>

Player_decode(map, prefix) ==
    Finish(ReadFields(Going(map, Empty), PlayerFields(prefix)))

\* `field: Sub::decode(&mut tv, ..).unwrap()`: the sub-decoder has run on the
\* same map; its Err panics in the unwrap
UnwrapSub(st, field, sub) ==
    IF st.res.tag # "Ok" THEN st
    ELSE IF sub.res.tag = "Ok"
         THEN [map |-> sub.map, out |-> (field :> sub.res.val) @@ st.out,
               res |-> st.res]
    ELSE [st EXCEPT !.map = sub.map, !.res = Panic]

\* started_at is read before the struct literal; the fields up to loser_id
MatchHead == <<
    Field("started_at", "started_at",
          "if let Some(s) = as_string() { parse_from_rfc3339(s).ok() }"),
    Field("created_at", "created_at",
          "parse_from_rfc3339(as_string().unwrap_or(\"\")).unwrap()"),
    Field("has_attachment", "has_attachment",
          "as_boolean().unwrap_or(false)"),
    Field("id", "id",
          "as_u64().unwrap()"),
    Field("identifier", "identifier",
          "as_string().unwrap_or(\"\")"),
    Field("loser_id", "loser_id",
          "as_u64()") >>

\* the fields after player2
MatchTail == <<
    Field("round", "round",
          "as_u64().unwrap()"),
    Field("state", "state",
          "MatchState::from_str(as_string().unwrap_or(\"\")).unwrap_or(All)"),
    Field("tournament_id", "tournament_id",
          "TournamentId::Id(as_u64().unwrap())"),
    Field("updated_at", "updated_at",
          "parse_from_rfc3339(as_string().unwrap_or(\"\")).unwrap()"),
    Field("winner_id", "winner_id",
          "as_u64()"),
    Field("prerequisite_match_ids_csv", "prerequisite_match_ids_csv",
          "as_string().unwrap_or(\"\")"),
    Field("scores_csv", "scores_csv",
          "MatchScores::decode(as_string().unwrap_or(\"\"))") >>

Match_decode(value) ==
    LET v == into_map(value) IN
    IF v.tag # "Ok" THEN v ELSE
    LET t == remove(v.val, "match") IN
    IF t.res.tag # "Ok" THEN t.res ELSE
    LET tv == into_map(t.res.val) IN
    IF tv.tag # "Ok" THEN tv ELSE
    LET s1 == ReadFields(Going(tv.val, Empty), MatchHead)
        s2 == UnwrapSub(s1, "player1", Player_decode(s1.map, "player1_"))
        s3 == UnwrapSub(s2, "player2", Player_decode(s2.map, "player2_"))
    IN  Finish(ReadFields(s3, MatchTail)).res

-----------------------------------------------------------------------------
(* participants.rs: Participant::decode. *)

ParticipantFields == <<
    Field("checked_in_at", "checked_in_at",
          "if let Some(s) = as_string() { parse_from_rfc3339(s).ok() }"),
    Field("active", "active",
          "as_boolean().unwrap_or(false)"),
    Field("created_at", "created_at",
          "parse_from_rfc3339(as_string().unwrap_or(\"\")).unwrap()"),
    Field("final_rank", "final_rank",
          "as_u64()"),
    Field("group_id", "group_id",
          "as_u64()"),
    Field("icon", "icon",
          "as_string().unwrap_or(\"\")"),
    Field("id", "id",
          "as_u64().unwrap()"),
    Field("invitation_id", "invitation_id",
          "as_u64()"),
    Field("invite_email", "invite_email",
          "as_string().unwrap_or(\"\")"),
    Field("misc", "misc",
          "as_string().unwrap_or(\"\")"),
    Field("name", "name",
          "as_string().unwrap_or(\"\")"),
    Field("on_waiting_list", "on_waiting_list",
          "as_boolean().unwrap_or(false)"),
    Field("seed", "seed",
          "as_u64().unwrap()"),
    Field("tournament_id", "tournament_id",
          "as_u64().unwrap()"),
    Field("updated_at", "updated_at",
          "parse_from_rfc3339(as_string().unwrap_or(\"\")).unwrap()"),
    Field("challonge_username", "challonge_username",
          "as_string().unwrap_or(\"\")"),
    Field("challonge_email_address_verified", "challonge_email_address_verified",
          "as_string().unwrap_or(\"\")"),
    Field("removable", "removable",
          "as_boolean().unwrap_or(false)"),
    Field("participatable_or_invitation_attached", "participatable_or_invitation_attached",
          "as_boolean().unwrap_or(false)"),
    Field("confirm_remove", "confirm_remove",
          "as_boolean().unwrap_or(false)"),
    Field("invitation_pending", "invitation_pending",
          "as_boolean().unwrap_or(false)"),
    Field("display_name_with_invitation_email_address", "display_name_with_invitation_email_address",
          "as_string().unwrap_or(\"\")"),
    Field("email_hash", "email_hash",
          "as_string().unwrap_or(\"\")"),
    Field("username", "username",
          "as_string().unwrap_or(\"\")"),
    Field("attached_participatable_portrait_url", "attached_participatable_portrait_url",
          "as_string().unwrap_or(\"\")"),
    Field("checked_in", "checked_in",
          "as_boolean().unwrap_or(false)"),
    Field("can_check_in", "can_check_in",
          "as_boolean().unwrap_or(false)"),
    Field("reactivatable", "reactivatable",
          "as_boolean().unwrap_or(false)") >>

Participant_decode(value) ==
    LET v == into_map(value) IN
    IF v.tag # "Ok" THEN v ELSE
    LET t == remove(v.val, "participant") IN
    IF t.res.tag # "Ok" THEN t.res ELSE
    LET tv == into_map(t.res.val) IN
    IF tv.tag # "Ok" THEN tv ELSE
    Finish(ReadFields(Going(tv.val, Empty), ParticipantFields)).res

-----------------------------------------------------------------------------
(* attachments.rs: Asset::decode and Attachment::decode. *)

AssetFields == <<
    Field("file_name", "asset_file_name",
          "as_string().map_or(None, Some)"),
    Field("content_type", "asset_content_type",
          "as_string().map_or(None, Some)"),
    Field("file_size", "asset_file_size",
          "as_u64()"),
    Field("url", "asset_url",
          "as_string().map_or(None, Some)") >>

Asset_decode(map) ==
    Finish(ReadFields(Going(map, Empty), AssetFields))

AttachmentFields == <<
    Field("id", "id",
          "as_u64().unwrap()"),
    Field("match_id", "match_id",
          "as_u64().unwrap()"),
    Field("user_id", "user_id",
          "as_u64().unwrap()"),
    Field("description", "description",
          "as_string().map_or(None, Some)"),
    Field("url", "url",
          "as_string().map_or(None, Some)"),
    Field("original_file_name", "original_file_name",
          "as_string().map_or(None, Some)"),
    Field("created_at", "created_at",
          "parse_from_rfc3339(as_string().unwrap_or(\"\")).unwrap()"),
    Field("updated_at", "updated_at",
          "parse_from_rfc3339(as_string().unwrap_or(\"\")).unwrap()") >>

Attachment_decode(value) ==
    LET v == into_map(value) IN
    IF v.tag # "Ok" THEN v ELSE
    LET t == remove(v.val, "match_attachment") IN
    IF t.res.tag # "Ok" THEN t.res ELSE
    LET tv == into_map(t.res.val) IN
    IF tv.tag # "Ok" THEN tv ELSE
    LET s1 == ReadFields(Going(tv.val, Empty), AttachmentFields)
    IN  Finish(UnwrapSub(s1, "asset", Asset_decode(s1.map))).res

-----------------------------------------------------------------------------
(* tournament.rs: GamePoints::decode and Tournament::decode. *)

GamePointsFields(prefix) == <<
    Field("match_win", prefix \o "pts_for_match_win",
          "as_string().unwrap_or(\"\").parse::<f64>().unwrap_or(0f64)"),
    Field("match_tie", prefix \o "pts_for_match_tie",
          "as_string().unwrap_or(\"\").parse::<f64>().unwrap_or(0f64)"),
    Field("game_win", prefix \o "pts_for_game_win",
          "as_string().unwrap_or(\"\").parse::<f64>().unwrap_or(0f64)"),
    Field("game_tie", prefix \o "pts_for_game_tie",
          "as_string().unwrap_or(\"\").parse::<f64>().unwrap_or(0f64)") >>

\* `if let Ok(bye_pts) = remove(..)`: an absent pts_for_bye is no error
GamePoints_decode(map, prefix) ==
    LET r == remove(map, prefix \o "pts_for_bye")
        bye == IF r.res.tag = "Ok"
               THEN Coerce("as_string().unwrap_or(\"\").parse::<f64>().ok()",
                           r.res.val).val
               ELSE None
    IN  Finish(ReadFields(Going(r.map, "bye" :> bye), GamePointsFields(prefix)))

\* started_at is read before the struct literal; the fields up to
\* progress_meter
TournamentHead == <<
    Field("started_at", "started_at",
          "if let Some(s) = as_string() { parse_from_rfc3339(s).ok() }"),
    Field("accept_attachments", "accept_attachments",
          "as_boolean().unwrap_or(false)"),
    Field("allow_participant_match_reporting", "allow_participant_match_reporting",
          "as_boolean().unwrap_or(false)"),
    Field("anonymous_voting", "anonymous_voting",
          "as_boolean().unwrap_or(false)"),
    Field("created_at", "created_at",
          "parse_from_rfc3339(as_string().unwrap_or(\"\")).unwrap()"),
    Field("created_by_api", "created_by_api",
          "as_boolean().unwrap_or(false)"),
    Field("credit_capped", "credit_capped",
          "as_boolean().unwrap_or(false)"),
    Field("description", "description",
          "as_string().unwrap_or(\"\")"),
    Field("game_id", "game_id",
          "as_u64().unwrap_or(0)"),
    Field("id", "id",
          "TournamentId::Id(as_u64().unwrap_or(0))"),
    Field("name", "name",
          "as_string().unwrap_or(\"\")"),
    Field("group_stages_enabled", "group_stages_enabled",
          "as_boolean().unwrap_or(false)"),
    Field("hide_forum", "hide_forum",
          "as_boolean().unwrap_or(false)"),
    Field("hide_seeds", "hide_seeds",
          "as_boolean().unwrap_or(false)"),
    Field("hold_third_place_match", "hold_third_place_match",
          "as_boolean().unwrap_or(false)"),
    Field("max_predictions_per_user", "max_predictions_per_user",
          "as_u64().unwrap_or(0)"),
    Field("notify_users_when_matches_open", "notify_users_when_matches_open",
          "as_boolean().unwrap_or(false)"),
    Field("notify_users_when_the_tournament_ends", "notify_users_when_the_tournament_ends",
          "as_boolean().unwrap_or(false)"),
    Field("open_signup", "open_signup",
          "as_boolean().unwrap_or(false)"),
    Field("participants_count", "participants_count",
          "as_u64().unwrap_or(0)"),
    Field("prediction_method", "prediction_method",
          "as_u64().unwrap_or(0)"),
    Field("private", "private",
          "as_boolean().unwrap_or(false)"),
    Field("progress_meter", "progress_meter",
          "as_u64().unwrap_or(0)") >>

\* the fields between swiss_points and round_robin_points
TournamentMiddle == <<
    Field("quick_advance", "quick_advance",
          "as_boolean().unwrap_or(false)"),
    Field("require_score_agreement", "require_score_agreement",
          "as_boolean().unwrap_or(false)") >>

\* the fields after round_robin_points
TournamentTail == <<
    Field("sequential_pairings", "sequential_pairings",
          "as_boolean().unwrap_or(false)"),
    Field("show_rounds", "show_rounds",
          "as_boolean().unwrap_or(false)"),
    Field("swiss_rounds", "swiss_rounds",
          "as_u64().unwrap_or(0)"),
    Field("teams", "teams",
          "as_boolean().unwrap_or(false)"),
    Field("tournament_type", "tournament_type",
          "TournamentType::from_str(as_string().unwrap_or(\"\")).unwrap_or(SingleElimination)"),
    Field("updated_at", "updated_at",
          "parse_from_rfc3339(as_string().unwrap()).unwrap()"),
    Field("url", "url",
          "as_string().unwrap_or(\"\")"),
    Field("description_source", "description_source",
          "as_string().unwrap_or(\"\")"),
    Field("full_challonge_url", "full_challonge_url",
          "as_string().unwrap_or(\"\")"),
    Field("live_image_url", "live_image_url",
          "as_string().unwrap_or(\"\")"),
    Field("review_before_finalizing", "review_before_finalizing",
          "as_boolean().unwrap_or(false)"),
    Field("accepting_predictions", "accepting_predictions",
          "as_boolean().unwrap_or(false)"),
    Field("participants_locked", "participants_locked",
          "as_boolean().unwrap_or(false)"),
    Field("game_name", "game_name",
          "as_string().unwrap_or(\"\")"),
    Field("participants_swappable", "participants_swappable",
          "as_boolean().unwrap_or(false)"),
    Field("team_convertable", "team_convertable",
          "as_boolean().unwrap_or(false)"),
    Field("group_stages_were_started", "group_stages_were_started",
          "as_boolean().unwrap_or(false)") >>

Tournament_decode(value) ==
    LET v == into_map(value) IN
    IF v.tag # "Ok" THEN v ELSE
    LET t == remove(v.val, "tournament") IN
    IF t.res.tag # "Ok" THEN t.res ELSE
    LET tv == into_map(t.res.val) IN
    IF tv.tag # "Ok" THEN tv ELSE
    LET s1 == ReadFields(Going(tv.val, Empty), TournamentHead)
        s2 == UnwrapSub(s1, "swiss_points", GamePoints_decode(s1.map, ""))
        s3 == ReadFields(s2, TournamentMiddle)
        s4 == UnwrapSub(s3, "round_robin_points", GamePoints_decode(s3.map, "rr_"))
    IN  Finish(ReadFields(s4, TournamentTail)).res

-----------------------------------------------------------------------------
(* The scalar codec as a state machine: a string is taken from the test     *)
(* vectors of matches.rs and extended character by character; it is then    *)
(* decoded as one score and as a score list, the results are rendered, and  *)
(* a rendering can be fed back as the next input.                           *)

\* the strings of tests::test_score_parse and the scores_csv of
\* tests::test_participant_parse
TestStrings ==
    {"3-1", "", "3-0", "3--5", "0-0", "  9-", "    -    118  ", "3-1, 3-2"}

Alphabet == {"0", "1", "9", "-", " ", ",", "+", "x"}

CodecIdle ==
    /\ tid = TournamentId_Id(0) /\ tidText = NotRun
    /\ entity = "none" /\ payload = NotRun /\ edits = 0 /\ outcome = NotRun
    /\ IndexAtRest /\ BuildAtRest /\ RestAtRest

InitCodec ==
    /\ string \in TestStrings
    /\ typed = 0
    /\ score = NotRun /\ shown = NotRun
    /\ scores = NotRun /\ shownList = NotRun
    /\ fedFrom = NotRun
    /\ CodecIdle

\* the caller extends the input by one character
Type(c) ==
    /\ typed < MaxTyped
    /\ score = NotRun /\ scores = NotRun /\ fedFrom = NotRun
    /\ string' = string \o c
    /\ typed' = typed + 1
    /\ UNCHANGED <<score, shown, scores, shownList, fedFrom>>
    /\ UNCHANGED <<tidVars, decodeVars, indexVars, buildVars, restVars>>

CallMatchScoreDecode ==
    /\ score = NotRun
    /\ score' = MatchScore_decode(string)
    /\ UNCHANGED <<string, typed, shown, scores, shownList, fedFrom>>
    /\ UNCHANGED <<tidVars, decodeVars, indexVars, buildVars, restVars>>

CallMatchScoreDisplay ==
    /\ score # NotRun /\ score.tag = "Ok"
    /\ shown = NotRun
    /\ shown' = Ret(MatchScore_fmt(score.val))
    /\ UNCHANGED <<string, typed, score, scores, shownList, fedFrom>>
    /\ UNCHANGED <<tidVars, decodeVars, indexVars, buildVars, restVars>>

CallMatchScoresDecode ==
    /\ scores = NotRun
    /\ scores' = Ret(MatchScores_decode(string))
    /\ UNCHANGED <<string, typed, score, shown, shownList, fedFrom>>
    /\ UNCHANGED <<tidVars, decodeVars, indexVars, buildVars, restVars>>

CallMatchScoresDisplay ==
    /\ scores # NotRun
    /\ shownList = NotRun
    /\ shownList' = Ret(MatchScores_fmt(scores.val))
    /\ UNCHANGED <<string, typed, score, shown, scores, fedFrom>>
    /\ UNCHANGED <<tidVars, decodeVars, indexVars, buildVars, restVars>>

\* the rendering of the decoded score becomes the next input
FeedBack ==
    /\ shown # NotRun /\ fedFrom = NotRun
    /\ string' = shown.val
    /\ fedFrom' = Ret(score.val)
    /\ score' = NotRun /\ shown' = NotRun
    /\ scores' = NotRun /\ shownList' = NotRun
    /\ UNCHANGED typed
    /\ UNCHANGED <<tidVars, decodeVars, indexVars, buildVars, restVars>>

NextCodec ==
    \/ \E c \in Alphabet : Type(c)
    \/ CallMatchScoreDecode
    \/ CallMatchScoreDisplay
    \/ CallMatchScoresDecode
    \/ CallMatchScoresDisplay
    \/ FeedBack

SpecCodec == InitCodec /\ [][NextCodec]_vars

-----------------------------------------------------------------------------
(* TournamentId values as a state machine: the caller builds either variant *)
(* and renders it with Display.                                             *)

NameAlphabet == {"a", "b", "-"}

TidIdle ==
    /\ string = "" /\ typed = 0
    /\ score = NotRun /\ shown = NotRun
    /\ scores = NotRun /\ shownList = NotRun /\ fedFrom = NotRun
    /\ entity = "none" /\ payload = NotRun /\ edits = 0 /\ outcome = NotRun
    /\ IndexAtRest /\ BuildAtRest /\ RestAtRest

InitTid ==
    /\ tid = TournamentId_Id(0)
    /\ tidText = NotRun
    /\ TidIdle

MakeId(n) ==
    /\ tidText = NotRun
    /\ tid' = TournamentId_Id(n)
    /\ UNCHANGED <<tidText, codecVars, decodeVars, indexVars, buildVars, restVars>>

MakeUrl ==
    /\ tidText = NotRun
    /\ tid' = TournamentId_Url("", "")
    /\ UNCHANGED <<tidText, codecVars, decodeVars, indexVars, buildVars, restVars>>

TypeSubdomain(c) ==
    /\ tidText = NotRun
    /\ tid.variant = "Url" /\ Len(tid.subdomain) < MaxName
    /\ tid' = TournamentId_Url(tid.subdomain \o c, tid.url)
    /\ UNCHANGED <<tidText, codecVars, decodeVars, indexVars, buildVars, restVars>>

TypeSlug(c) ==
    /\ tidText = NotRun
    /\ tid.variant = "Url" /\ Len(tid.url) < MaxName
    /\ tid' = TournamentId_Url(tid.subdomain, tid.url \o c)
    /\ UNCHANGED <<tidText, codecVars, decodeVars, indexVars, buildVars, restVars>>

CallTournamentIdDisplay ==
    /\ tidText = NotRun
    /\ tidText' = Ret(TournamentId_fmt(tid))
    /\ UNCHANGED <<tid, codecVars, decodeVars, indexVars, buildVars, restVars>>

NextTid ==
    \/ \E n \in 0..MaxId : MakeId(n)
    \/ MakeUrl
    \/ \E c \in NameAlphabet : TypeSubdomain(c)
    \/ \E c \in NameAlphabet : TypeSlug(c)
    \/ CallTournamentIdDisplay

SpecTid == InitTid /\ [][NextTid]_vars

-----------------------------------------------------------------------------
(* The entity decoders as a state machine: the response of the service is   *)
(* one of the payloads of the tests of the repository, changed in at most   *)
(* MaxEdits places, and is handed to the decoder of its entity.             *)

Entities == {"tournament", "participant", "match", "match_attachment"}

\* tests::test_tournament_parse (tournament.rs)
TournamentSample == [
    accept_attachments |-> Bool(FALSE),
    allow_participant_match_reporting |-> Bool(TRUE),
    anonymous_voting |-> Bool(FALSE),
    category |-> Null,
    check_in_duration |-> Null,
    completed_at |-> Null,
    created_at |-> String("2015-01-19T16:47:30-05:00"),
    created_by_api |-> Bool(FALSE),
    credit_capped |-> Bool(FALSE),
    description |-> String("sample description"),
    game_id |-> U64(600),
    group_stages_enabled |-> Bool(FALSE),
    hide_forum |-> Bool(FALSE),
    hide_seeds |-> Bool(FALSE),
    hold_third_place_match |-> Bool(FALSE),
    id |-> U64(1086875),
    max_predictions_per_user |-> U64(1),
    name |-> String("Sample Tournament 1"),
    notify_users_when_matches_open |-> Bool(TRUE),
    notify_users_when_the_tournament_ends |-> Bool(TRUE),
    open_signup |-> Bool(FALSE),
    participants_count |-> U64(4),
    prediction_method |-> U64(0),
    predictions_opened_at |-> Null,
    private |-> Bool(FALSE),
    progress_meter |-> U64(0),
    pts_for_bye |-> String("1.0"),
    pts_for_game_tie |-> String("0.0"),
    pts_for_game_win |-> String("0.0"),
    pts_for_match_tie |-> String("0.5"),
    pts_for_match_win |-> String("1.0"),
    quick_advance |-> Bool(FALSE),
    ranked_by |-> String("match wins"),
    require_score_agreement |-> Bool(FALSE),
    rr_pts_for_game_tie |-> String("0.0"),
    rr_pts_for_game_win |-> String("0.0"),
    rr_pts_for_match_tie |-> String("0.5"),
    rr_pts_for_match_win |-> String("1.0"),
    sequential_pairings |-> Bool(FALSE),
    show_rounds |-> Bool(TRUE),
    signup_cap |-> Null,
    start_at |-> Null,
    started_at |-> String("2015-01-19T16:57:17-05:00"),
    started_checking_in_at |-> Null,
    state |-> String("underway"),
    swiss_rounds |-> U64(0),
    teams |-> Bool(FALSE),
    tie_breaks |-> Array(<<String("match wins vs tied"), String("game wins"),
                           String("points scored")>>),
    tournament_type |-> String("single elimination"),
    updated_at |-> String("2015-01-19T16:57:17-05:00"),
    url |-> String("sample_tournament_1"),
    description_source |-> String("sample description source"),
    subdomain |-> Null,
    full_challonge_url |-> String("http://challonge.com/sample_tournament_1"),
    live_image_url |-> String("http://images.challonge.com/sample_tournament_1.png"),
    sign_up_url |-> Null,
    review_before_finalizing |-> Bool(TRUE),
    accepting_predictions |-> Bool(FALSE),
    participants_locked |-> Bool(TRUE),
    game_name |-> String("Table Tennis"),
    participants_swappable |-> Bool(FALSE),
    team_convertable |-> Bool(FALSE),
    group_stages_were_started |-> Bool(FALSE) ]

\* tests::test_participant_parse (participants.rs)
ParticipantSample == [
    active |-> Bool(TRUE),
    checked_in_at |-> Null,
    created_at |-> String("2015-01-19T16:54:40-05:00"),
    final_rank |-> Null,
    group_id |-> Null,
    icon |-> Null,
    id |-> U64(16543993),
    invitation_id |-> Null,
    invite_email |-> Null,
    misc |-> Null,
    name |-> String("Participant #1"),
    on_waiting_list |-> Bool(FALSE),
    seed |-> U64(1),
    tournament_id |-> U64(1086875),
    updated_at |-> String("2015-01-19T16:54:40-05:00"),
    challonge_username |-> Null,
    challonge_email_address_verified |-> Null,
    removable |-> Bool(TRUE),
    participatable_or_invitation_attached |-> Bool(FALSE),
    confirm_remove |-> Bool(TRUE),
    invitation_pending |-> Bool(FALSE),
    display_name_with_invitation_email_address |-> String("Participant #1"),
    email_hash |-> Null,
    username |-> Null,
    attached_participatable_portrait_url |-> Null,
    can_check_in |-> Bool(FALSE),
    checked_in |-> Bool(FALSE),
    reactivatable |-> Bool(FALSE) ]

\* tests::test_participant_parse (matches.rs)
MatchSample == [
    attachment_count |-> Null,
    created_at |-> String("2015-01-19T16:57:17-05:00"),
    group_id |-> Null,
    has_attachment |-> Bool(FALSE),
    id |-> U64(23575258),
    identifier |-> String("A"),
    location |-> Null,
    loser_id |-> Null,
    player1_id |-> U64(16543993),
    player1_is_prereq_match_loser |-> Bool(FALSE),
    player1_prereq_match_id |-> Null,
    player1_votes |-> Null,
    player2_id |-> U64(16543997),
    player2_is_prereq_match_loser |-> Bool(FALSE),
    player2_prereq_match_id |-> Null,
    player2_votes |-> U64(3),
    round |-> U64(1),
    scheduled_time |-> Null,
    started_at |-> String("2015-01-19T16:57:17-05:00"),
    state |-> String("open"),
    tournament_id |-> U64(1086875),
    underway_at |-> Null,
    updated_at |-> String("2015-01-19T16:57:17-05:00"),
    winner_id |-> Null,
    prerequisite_match_ids_csv |-> String(""),
    scores_csv |-> String("3-1, 3-2") ]

\* tests::test_attachment_parse (attachments.rs)
AttachmentSample == [
    id |-> U64(165418),
    match_id |-> U64(65187924),
    user_id |-> U64(979950),
    description |-> String("discord"),
    url |-> String(""),
    original_file_name |-> Null,
    created_at |-> String("2016-07-02T13:24:09.899-04:00"),
    updated_at |-> String("2016-07-02T13:24:09.899-04:00"),
    asset_file_name |-> Null,
    asset_content_type |-> Null,
    asset_file_size |-> Null,
    asset_url |-> Null ]

Sample(e) ==
    CASE e = "tournament" -> TournamentSample
      [] e = "participant" -> ParticipantSample
      [] e = "match" -> MatchSample
      [] e = "match_attachment" -> AttachmentSample

\* the payload {"<wrapper key>": {...}} of an entity
Wrapped(key, inner) == Object(key :> inner)

\* JSON values of the kinds that the service may put under any key
AnyValues ==
    { Null, Bool(TRUE), U64(7), I64(-1), String(""), Array(<<>>) }

\* further values for the keys whose numbers or strings are interpreted
ValuesFor(key) ==
    IF key \in {"created_at", "updated_at", "started_at", "checked_in_at"}
    THEN {String("2016-07-02T13:24:09.899-04:00"), String("2015-01-19")}
    ELSE IF key \in {"id", "tournament_id", "round"}
    THEN {F64(Float(15, -1)), U64(0)}
    ELSE IF key = "state"
    THEN {String("all"), String("pending"), String("complete"), String("underway")}
    ELSE IF key = "tournament_type"
    THEN {String("double_elimination"), String("round robin"), String("swiss")}
    ELSE IF key = "scores_csv"
    THEN {String("3--5"), String("  9-")}
    ELSE IF key \in {"pts_for_bye", "rr_pts_for_match_win"}
    THEN {String("2.5")}
    ELSE IF key \in {"url", "asset_url"}
    THEN {Object(Empty)}
    ELSE {}

\* the payload is an object that holds an object under the wrapper key
WellWrapped ==
    /\ payload.kind = "Object"
    /\ entity \in DOMAIN payload.m
    /\ payload.m[entity].kind = "Object"

Inner == payload.m[entity].m

DecodeIdle ==
    /\ string = "" /\ typed = 0
    /\ score = NotRun /\ shown = NotRun
    /\ scores = NotRun /\ shownList = NotRun /\ fedFrom = NotRun
    /\ tid = TournamentId_Id(0) /\ tidText = NotRun
    /\ IndexAtRest /\ BuildAtRest /\ RestAtRest

InitDecode ==
    /\ entity \in Entities
    /\ payload = Wrapped(entity, Object(Sample(entity)))
    /\ edits = 0
    /\ outcome = NotRun
    /\ DecodeIdle

\* the service sends another value under a key of the inner object
SetKey(k, v) ==
    /\ outcome = NotRun /\ edits < MaxEdits
    /\ WellWrapped /\ k \in DOMAIN Inner
    /\ Inner[k] # v
    /\ payload' = Wrapped(entity, Object([Inner EXCEPT ![k] = v]))
    /\ edits' = edits + 1
    /\ UNCHANGED <<entity, outcome, codecVars, tidVars, indexVars, buildVars, restVars>>

\* the service leaves a key out of the inner object
DropKey(k) ==
    /\ outcome = NotRun /\ edits < MaxEdits
    /\ WellWrapped /\ k \in DOMAIN Inner
    /\ payload' = Wrapped(entity,
                          Object([j \in DOMAIN Inner \ {k} |-> Inner[j]]))
    /\ edits' = edits + 1
    /\ UNCHANGED <<entity, outcome, codecVars, tidVars, indexVars, buildVars, restVars>>

\* the response is not an object at all
SendBare(v) ==
    /\ outcome = NotRun /\ edits < MaxEdits
    /\ WellWrapped
    /\ v.kind # "Object"
    /\ payload' = v
    /\ edits' = edits + 1
    /\ UNCHANGED <<entity, outcome, codecVars, tidVars, indexVars, buildVars, restVars>>

\* the inner object arrives under another key than the entity's wrapper key
Rewrap(key) ==
    /\ outcome = NotRun /\ edits < MaxEdits
    /\ WellWrapped
    /\ key # entity
    /\ payload' = Wrapped(key, Object(Inner))
    /\ edits' = edits + 1
    /\ UNCHANGED <<entity, outcome, codecVars, tidVars, indexVars, buildVars, restVars>>

\* the response is an object without any key
SendEmptyObject ==
    /\ outcome = NotRun /\ edits < MaxEdits
    /\ WellWrapped
    /\ payload' = Object(Empty)
    /\ edits' = edits + 1
    /\ UNCHANGED <<entity, outcome, codecVars, tidVars, indexVars, buildVars, restVars>>

\* the wrapper key holds a value that is not an object
WrapBare(v) ==
    /\ outcome = NotRun /\ edits < MaxEdits
    /\ WellWrapped
    /\ v.kind # "Object"
    /\ payload' = Wrapped(entity, v)
    /\ edits' = edits + 1
    /\ UNCHANGED <<entity, outcome, codecVars, tidVars, indexVars, buildVars, restVars>>

Decode(e, value) ==
    CASE e = "tournament" -> Tournament_decode(value)
      [] e = "participant" -> Participant_decode(value)
      [] e = "match" -> Match_decode(value)
      [] e = "match_attachment" -> Attachment_decode(value)

CallDecode ==
    /\ outcome = NotRun
    /\ outcome' = Decode(entity, payload)
    /\ UNCHANGED <<entity, payload, edits, codecVars, tidVars, indexVars, buildVars, restVars>>

NextDecode ==
    \/ \E k \in DOMAIN TournamentSample \cup DOMAIN ParticipantSample
                    \cup DOMAIN MatchSample \cup DOMAIN AttachmentSample :
           \E v \in AnyValues \cup ValuesFor(k) : SetKey(k, v)
    \/ \E k \in DOMAIN TournamentSample \cup DOMAIN ParticipantSample
                    \cup DOMAIN MatchSample \cup DOMAIN AttachmentSample :
           DropKey(k)
    \/ \E v \in AnyValues : SendBare(v)
    \/ \E key \in Entities \cup {"other"} : Rewrap(key)
    \/ SendEmptyObject
    \/ \E v \in AnyValues : WrapBare(v)
    \/ CallDecode

SpecDecode == InitDecode /\ [][NextDecode]_vars

-----------------------------------------------------------------------------
(* The Index decoders as a state machine: the response of the service is    *)
(* a JSON array of at most MaxElems payloads, or no array at all, and is    *)
(* handed to Index::decode of its entity.                                   *)

\* Index::decode of tournament.rs, participants.rs, matches.rs and
\* attachments.rs: Ok(Index(try!(decode_array(value, Entity::decode))))
\* Ok(Index(try!(r))): the Err of r is returned, its Vec is wrapped
Index(r) == IF r.tag # "Ok" THEN r ELSE Ok(r.val)

\* the values on which decode_array applies the decoder of the elements
ElementsOf(value) ==
    IF value.kind = "Array" THEN {value.a[i] : i \in 1..Len(value.a)} ELSE {}

Index_decode(e, value) ==
    Index(decode_array(value, [v \in ElementsOf(value) |-> Decode(e, v)]))

\* the second element of the array of tests::test_index_parse
AttachmentSample2 == [
    id |-> U64(165417),
    match_id |-> U64(65187924),
    user_id |-> U64(979950),
    description |-> String("test description"),
    url |-> String(""),
    original_file_name |-> Null,
    created_at |-> String("2016-07-02T13:21:14.794-04:00"),
    updated_at |-> String("2016-07-02T13:21:14.794-04:00"),
    asset_file_name |-> Null,
    asset_content_type |-> Null,
    asset_file_size |-> Null,
    asset_url |-> Null ]

\* the elements that the service may put into the array of an entity: the
\* payload of the tests, the same with another id, without its id, under
\* another wrapper key, with null for its object, with null for its
\* created_at, and a value that is no object
Elements(e) ==
    { Wrapped(e, Object(Sample(e))),
      Wrapped(e, Object([Sample(e) EXCEPT !["id"] = U64(7)])),
      Wrapped(e, Object([k \in DOMAIN Sample(e) \ {"id"} |-> Sample(e)[k]])),
      Wrapped("other", Object(Sample(e))),
      Wrapped(e, Null),
      Wrapped(e, Object([Sample(e) EXCEPT !["created_at"] = Null])),
      Bool(TRUE) }
    \cup (IF e = "match_attachment"
          THEN {Wrapped(e, Object(AttachmentSample2))} ELSE {})

\* the values that the service may send in place of the array
NonArrays(e) == {Null, String(""), Object(Empty), Wrapped(e, Object(Sample(e)))}

InitIndex ==
    /\ indexOf \in Entities
    /\ array = Array(<<>>)
    /\ collection = NotRun
    /\ CodecAtRest /\ TidAtRest /\ DecodeAtRest /\ BuildAtRest /\ RestAtRest

\* the array of the response holds one more element
Push(v) ==
    /\ collection = NotRun
    /\ array.kind = "Array" /\ Len(array.a) < MaxElems
    /\ v \in Elements(indexOf)
    /\ array' = Array(Append(array.a, v))
    /\ UNCHANGED <<indexOf, collection, codecVars, tidVars, decodeVars, buildVars, restVars>>

\* the response is not an array
SendNonArray(v) ==
    /\ collection = NotRun
    /\ array = Array(<<>>)
    /\ v \in NonArrays(indexOf)
    /\ array' = v
    /\ UNCHANGED <<indexOf, collection, codecVars, tidVars, decodeVars, buildVars, restVars>>

CallIndexDecode ==
    /\ collection = NotRun
    /\ collection' = Index_decode(indexOf, array)
    /\ UNCHANGED <<indexOf, array, codecVars, tidVars, decodeVars, buildVars, restVars>>

NextIndex ==
    \/ \E e \in Entities : \E v \in Elements(e) : Push(v)
    \/ \E e \in Entities : \E v \in NonArrays(e) : SendNonArray(v)
    \/ CallIndexDecode

SpecIndex == InitIndex /\ [][NextIndex]_vars

-----------------------------------------------------------------------------
(* The Create/Update structures as a state machine: the caller takes a      *)
(* structure from new(), calls setters on it, and hands a MatchUpdate to    *)
(* update_match, which turns it into the field list of the request.  The    *)
(* match[scores_csv] value of the list is then read back with               *)
(* MatchScores::decode.  A structure is a record of its fields.             *)

\* macroses.rs: m!
macro_m(key) == "match[" \o key \o "]"

\* macroses.rs: builder!  (self.$field = $field)
builder(self, field, value) == [self EXCEPT ![field] = value]

\* builder_s! that appends to the field
builder_s_push(self, field, value) == [self EXCEPT ![field] = @ \o value]

\* macroses.rs: builder_s!  (self.$field = $field.into())
builder_s(self, field, value) == [self EXCEPT ![field] = value]

\* macroses.rs: builder_o!  (self.$field = Some($field.into()))
builder_o(self, field, value) == [self EXCEPT ![field] = Some(value)]

\* builder_so! that takes the empty string for "no value"
builder_so_emptyIsNone(self, field, value) ==
    [self EXCEPT ![field] = IF value = "" THEN None ELSE Some(value)]

\* macroses.rs: builder_so!  (self.$field = Some($field.into()))
builder_so(self, field, value) == [self EXCEPT ![field] = Some(value)]

\* participants.rs: the tuple struct ParticipantId(pub u64)
ParticipantId(n) == <<n>>

\* tournament.rs: GamePoints::new
GamePoints_new(match_win, match_tie, game_win, game_tie, bye) ==
    [match_win |-> match_win, match_tie |-> match_tie,
     game_win |-> game_win, game_tie |-> game_tie, bye |-> bye]

\* tournament.rs: impl Default for GamePoints
GamePoints_default ==
    [match_win |-> Float(5, -1), match_tie |-> Float(1, 0),
     game_win |-> Float(0, 0), game_tie |-> Float(0, 0), bye |-> None]

\* TournamentCreate::new as #[derive(Default)] would write it
TournamentCreate_new_derived ==
    [name |-> "",
     tournament_type |-> "SingleElimination",
     url |-> "",
     subdomain |-> "",
     description |-> "",
     open_signup |-> FALSE,
     hold_third_place_match |-> FALSE,
     swiss_points |-> GamePoints_default,
     swiss_rounds |-> 0,
     ranked_by |-> "PointsScored",
     round_robin_points |-> GamePoints_default,
     show_rounds |-> FALSE,
     private |-> FALSE,
     game_name |-> None,
     notify_users_when_matches_open |-> FALSE,
     notify_users_when_the_tournament_ends |-> FALSE,
     sequential_pairings |-> FALSE,
     signup_cap |-> 0,
     start_at |-> None,
     check_in_duration |-> 0,
     grand_finals_modifier |-> None]

TournamentCreate_new ==
    [name |-> "",
     tournament_type |-> "SingleElimination",
     url |-> "",
     subdomain |-> "",
     description |-> "",
     open_signup |-> FALSE,
     hold_third_place_match |-> FALSE,
     swiss_points |-> GamePoints_new(Float(5, -1), Float(1, 0), Float(0, 0),
                                     Float(0, 0), Some(Float(0, 0))),
     swiss_rounds |-> 0,
     ranked_by |-> "PointsScored",
     round_robin_points |-> GamePoints_default,
     show_rounds |-> FALSE,
     private |-> FALSE,
     game_name |-> None,
     notify_users_when_matches_open |-> TRUE,
     notify_users_when_the_tournament_ends |-> TRUE,
     sequential_pairings |-> FALSE,
     signup_cap |-> 4,
     start_at |-> None,
     check_in_duration |-> 60,
     grand_finals_modifier |-> None]

\* the setters of TournamentCreate: the macro and the field of each
TournamentCreate_builders == {
    [macro |-> "builder_s", field |-> "name"],
    [macro |-> "builder", field |-> "tournament_type"],
    [macro |-> "builder_s", field |-> "url"],
    [macro |-> "builder_s", field |-> "subdomain"],
    [macro |-> "builder_s", field |-> "description"],
    [macro |-> "builder", field |-> "open_signup"],
    [macro |-> "builder", field |-> "hold_third_place_match"],
    [macro |-> "builder", field |-> "swiss_points"],
    [macro |-> "builder", field |-> "swiss_rounds"],
    [macro |-> "builder", field |-> "ranked_by"],
    [macro |-> "builder", field |-> "round_robin_points"],
    [macro |-> "builder", field |-> "show_rounds"],
    [macro |-> "builder", field |-> "private"],
    [macro |-> "builder_so", field |-> "game_name"],
    [macro |-> "builder", field |-> "notify_users_when_matches_open"],
    [macro |-> "builder", field |-> "notify_users_when_the_tournament_ends"],
    [macro |-> "builder", field |-> "sequential_pairings"],
    [macro |-> "builder", field |-> "signup_cap"],
    [macro |-> "builder", field |-> "check_in_duration"],
    [macro |-> "builder", field |-> "grand_finals_modifier"] }

\* matches.rs: MatchUpdate::new
MatchUpdate_new ==
    [scores_csv |-> <<>>,
     winner_id |-> None,
     player1_votes |-> None,
     player2_votes |-> None]

\* the setters of MatchUpdate
MatchUpdate_builders == {
    [macro |-> "builder", field |-> "scores_csv"],
    [macro |-> "builder_o", field |-> "winner_id"],
    [macro |-> "builder_o", field |-> "player1_votes"],
    [macro |-> "builder_o", field |-> "player2_votes"] }

\* participants.rs: ParticipantCreate::new
ParticipantCreate_new ==
    [name |-> None,
     challonge_username |-> None,
     email |-> "",
     seed |-> 1,
     misc |-> ""]

\* the setters of ParticipantCreate
ParticipantCreate_builders == {
    [macro |-> "builder_so", field |-> "name"],
    [macro |-> "builder_so", field |-> "challonge_username"],
    [macro |-> "builder_s", field |-> "email"],
    [macro |-> "builder", field |-> "seed"],
    [macro |-> "builder_s", field |-> "misc"] }

\* attachments.rs: AttachmentCreate::new
AttachmentCreate_new ==
    [asset |-> None,
     url |-> None,
     description |-> None]

\* the setters of AttachmentCreate
AttachmentCreate_builders == {
    [macro |-> "builder_o", field |-> "asset"],
    [macro |-> "builder_so", field |-> "url"],
    [macro |-> "builder_so", field |-> "description"] }

BuilderTypes ==
    {"TournamentCreate", "ParticipantCreate", "MatchUpdate", "AttachmentCreate"}

New(t) ==
    IF t = "TournamentCreate" THEN TournamentCreate_new
    ELSE IF t = "ParticipantCreate" THEN ParticipantCreate_new
    ELSE IF t = "AttachmentCreate" THEN AttachmentCreate_new
    ELSE MatchUpdate_new

Builders(t) ==
    IF t = "TournamentCreate" THEN TournamentCreate_builders
    ELSE IF t = "ParticipantCreate" THEN ParticipantCreate_builders
    ELSE IF t = "AttachmentCreate" THEN AttachmentCreate_builders
    ELSE IF t = "MatchUpdate" THEN MatchUpdate_builders
    ELSE {}

\* the call self.field(value) of the setter that the macro generated
CallBuilder(self, b, value) ==
    IF b.macro = "builder" THEN builder(self, b.field, value)
    ELSE IF b.macro = "builder_s" THEN builder_s(self, b.field, value)
    ELSE IF b.macro = "builder_o" THEN builder_o(self, b.field, value)
    ELSE builder_so(self, b.field, value)

-----------------------------------------------------------------------------
(* The to_string conversions and the encoders of lib.rs.  A FieldPairs     *)
(* value is a sequence of <<key, value>> pairs of strings.                  *)

\* macroses.rs: t!
macro_t(key) == "tournament[" \o key \o "]"

\* macroses.rs: p!
macro_p(key) == "participant[" \o key \o "]"

\* macroses.rs: a!
macro_a(key) == "match_attachment[" \o key \o "]"

\* macroses.rs: ps!
macro_ps(key) == "participant[][" \o key \o "]"

\* bool::to_string
bool_to_string(b) == IF b THEN "true" ELSE "false"

\* the digits of n, padded with zeros on the left to the width w
RECURSIVE Padded(_, _)
Padded(n, w) ==
    IF w = 0 THEN ""
    ELSE Padded(n \div 10, w - 1) \o Digits[(n % 10) + 1]

RECURSIVE TenTo(_)
TenTo(k) == IF k = 0 THEN 1 ELSE 10 * TenTo(k - 1)

\* f64::to_string of a non-negative short decimal: the integer part, and
\* the fraction only if there is one ("0.5", "1", "0")
f64_to_string(x) ==
    IF x.exp = 0 THEN u64_to_string(x.mant)
    ELSE u64_to_string(x.mant \div TenTo(0 - x.exp)) \o "."
         \o Padded(x.mant % TenTo(0 - x.exp), 0 - x.exp)

\* Display of TournamentType that writes the name of the variant, as
\* #[derive(Debug)] does
TournamentType_fmt_debug(t) == t

\* impl Display for TournamentType
TournamentType_fmt(t) ==
    IF t = "SingleElimination" THEN "single elimination"
    ELSE IF t = "DoubleElimination" THEN "double elimination"
    ELSE IF t = "RoundRobin" THEN "round robin"
    ELSE "swiss"

\* TournamentType::to_get_param
to_get_param(t) ==
    IF t = "SingleElimination" THEN "single_elimination"
    ELSE IF t = "DoubleElimination" THEN "double_elimination"
    ELSE IF t = "RoundRobin" THEN "round_robin"
    ELSE "swiss"

\* impl Display for RankedBy
RankedBy_fmt(r) ==
    IF r = "MatchWins" THEN "match wins"
    ELSE IF r = "GameWins" THEN "game wins"
    ELSE IF r = "PointsScored" THEN "points scored"
    ELSE IF r = "PointsDifference" THEN "points difference"
    ELSE "custom"

\* impl Display for MatchState
MatchState_fmt(s) ==
    IF s = "All" THEN "all"
    ELSE IF s = "Pending" THEN "pending"
    ELSE IF s = "Open" THEN "open"
    ELSE "complete"

\* DateTime::to_rfc3339 of a timestamp that is held as its date and its
\* time with the offset
to_rfc3339(dt) == dt.date \o "T" \o dt.time

\* a byte of a UTF-8 sequence after the first
IsContinuation(b) == 128 <= b /\ b <= 191

\* std::str::from_utf8 accepts the bytes
RECURSIVE Utf8Valid(_)
Utf8Valid(bytes) ==
    IF Len(bytes) = 0 THEN TRUE
    ELSE IF bytes[1] < 128 THEN Utf8Valid(Tail(bytes))
    ELSE IF 194 <= bytes[1] /\ bytes[1] <= 223
         THEN /\ Len(bytes) >= 2
              /\ IsContinuation(bytes[2])
              /\ Utf8Valid(SubSeq(bytes, 3, Len(bytes)))
    ELSE IF 224 <= bytes[1] /\ bytes[1] <= 239
         THEN /\ Len(bytes) >= 3
              /\ IsContinuation(bytes[2])
              /\ bytes[1] = 224 => bytes[2] >= 160
              /\ bytes[1] = 237 => bytes[2] <= 159
              /\ IsContinuation(bytes[3])
              /\ Utf8Valid(SubSeq(bytes, 4, Len(bytes)))
    ELSE IF 240 <= bytes[1] /\ bytes[1] <= 244
         THEN /\ Len(bytes) >= 4
              /\ IsContinuation(bytes[2])
              /\ bytes[1] = 240 => bytes[2] >= 144
              /\ bytes[1] = 244 => bytes[2] <= 143
              /\ IsContinuation(bytes[3])
              /\ IsContinuation(bytes[4])
              /\ Utf8Valid(SubSeq(bytes, 5, Len(bytes)))
    ELSE FALSE

\* the characters of the bytes 32 to 95 and of the bytes 97 to 126
PrintableLow ==
    " !\"#$%&'()*+,-./0123456789:;<=>?@ABCDEFGHIJKLMNOPQRSTUVWXYZ[\\]^_"
PrintableHigh == "abcdefghijklmnopqrstuvwxyz{|}~"

\* the text of a sequence of printable ASCII bytes (the grave accent, byte
\* 96, is left out: a TLA+ string cannot hold it)
RECURSIVE AsciiText(_)
AsciiText(bytes) ==
    IF Len(bytes) = 0 THEN ""
    ELSE (IF bytes[1] <= 95 THEN Char(PrintableLow, bytes[1] - 31)
          ELSE Char(PrintableHigh, bytes[1] - 96))
         \o AsciiText(Tail(bytes))

\* String::from_utf8; the valid byte sequences of the model are ASCII
from_utf8(bytes) ==
    IF Utf8Valid(bytes) THEN Ok(AsciiText(bytes))
    ELSE [tag |-> "Err", variant |-> "FromUtf8Error"]

\* Result::unwrap
unwrap(r) == IF r.tag = "Ok" THEN Ret(r.val) ELSE Panic

\* lib.rs: pc_to_pairs, over the key macro (p! there, ps! in pcs_to_pairs)
ParticipantPairs(participant, key_email, key_seed, key_misc, key_name, key_un) ==
       << <<key_email, participant.email>>,
          <<key_seed, u64_to_string(participant.seed)>>,
          <<key_misc, participant.misc>> >>
    \o (IF participant.name.opt = "Some"
        THEN << <<key_name, participant.name.v>> >> ELSE <<>>)
    \o (IF participant.challonge_username.opt = "Some"
        THEN << <<key_un, participant.challonge_username.v>> >> ELSE <<>>)

\* lib.rs: pc_to_pairs
pc_to_pairs(participant) ==
    ParticipantPairs(participant, macro_p("email"), macro_p("seed"),
                     macro_p("misc"), macro_p("name"),
                     macro_p("challonge_username"))

\* lib.rs: pcs_to_pairs
RECURSIVE pcs_to_pairs(_)
pcs_to_pairs(participants) ==
    IF Len(participants) = 0 THEN <<>>
    ELSE ParticipantPairs(Head(participants), macro_ps("email"),
                          macro_ps("seed"), macro_ps("misc"), macro_ps("name"),
                          macro_ps("challonge_username"))
         \o pcs_to_pairs(Tail(participants))

\* lib.rs: at_to_pairs; String::from_utf8(..).unwrap() panics on an asset
\* that is no UTF-8 text
at_to_pairs(attachment) ==
    IF attachment.asset.opt = "Some" /\ unwrap(from_utf8(attachment.asset.v)) = Panic
    THEN Panic
    ELSE Ret(
           (IF attachment.asset.opt = "Some"
            THEN << <<macro_a("asset"), unwrap(from_utf8(attachment.asset.v)).val>> >>
            ELSE <<>>)
        \o (IF attachment.url.opt = "Some"
            THEN << <<macro_a("url"), attachment.url.v>> >> ELSE <<>>)
        \o (IF attachment.description.opt = "Some"
            THEN << <<macro_a("description"), attachment.description.v>> >>
            ELSE <<>>))

\* lib.rs: tc_to_pairs
tc_to_pairs(tournament) ==
       << <<macro_t("name"), tournament.name>>,
          <<macro_t("tournament_type"), TournamentType_fmt(tournament.tournament_type)>>,
          <<macro_t("url"), tournament.url>>,
          <<macro_t("subdomain"), tournament.subdomain>>,
          <<macro_t("description"), tournament.description>>,
          <<macro_t("open_signup"), bool_to_string(tournament.open_signup)>>,
          <<macro_t("hold_third_place_match"),
            bool_to_string(tournament.hold_third_place_match)>>,
          <<macro_t("pts_for_match_win"), f64_to_string(tournament.swiss_points.match_win)>>,
          <<macro_t("pts_for_match_tie"), f64_to_string(tournament.swiss_points.match_tie)>>,
          <<macro_t("pts_for_game_win"), f64_to_string(tournament.swiss_points.game_win)>>,
          <<macro_t("pts_for_game_tie"), f64_to_string(tournament.swiss_points.game_tie)>>,
          <<macro_t("swiss_rounds"), u64_to_string(tournament.swiss_rounds)>>,
          <<macro_t("ranked_by"), RankedBy_fmt(tournament.ranked_by)>>,
          <<macro_t("rr_pts_for_match_win"),
            f64_to_string(tournament.round_robin_points.match_win)>>,
          <<macro_t("rr_pts_for_match_tie"),
            f64_to_string(tournament.round_robin_points.match_tie)>>,
          <<macro_t("rr_pts_for_game_win"),
            f64_to_string(tournament.round_robin_points.game_win)>>,
          <<macro_t("rr_pts_for_game_tie"),
            f64_to_string(tournament.round_robin_points.game_tie)>>,
          <<macro_t("show_rounds"), bool_to_string(tournament.show_rounds)>>,
          <<macro_t("private"), bool_to_string(tournament.private)>>,
          <<macro_t("notify_users_when_matches_open"),
            bool_to_string(tournament.notify_users_when_matches_open)>>,
          <<macro_t("notify_users_when_the_tournament_ends"),
            bool_to_string(tournament.notify_users_when_the_tournament_ends)>>,
          <<macro_t("sequential_pairings"),
            bool_to_string(tournament.sequential_pairings)>>,
          <<macro_t("signup_cap"), u64_to_string(tournament.signup_cap)>>,
          <<macro_t("check_in_duration"), u64_to_string(tournament.check_in_duration)>> >>
    \o (IF tournament.grand_finals_modifier.opt = "Some"
        THEN << <<macro_t("grand_finals_modifier"), tournament.grand_finals_modifier.v>> >>
        ELSE <<>>)
    \o (IF tournament.start_at.opt = "Some"
        THEN << <<macro_t("start_at"), to_rfc3339(tournament.start_at.v)>> >>
        ELSE <<>>)
    \o (IF tournament.swiss_points.bye.opt = "Some"
        THEN << <<macro_t("pts_for_bye"), f64_to_string(tournament.swiss_points.bye.v)>> >>
        ELSE <<>>)
    \o (IF tournament.game_name.opt = "Some"
        THEN << <<macro_t("game_name"), tournament.game_name.v>> >>
        ELSE <<>>)

\* mu_to_pairs that sends the scores only when there are any
mu_to_pairs_scoresIfAny(mu) ==
       (IF mu.player1_votes.opt = "Some"
        THEN << <<macro_m("player1_votes"), u64_to_string(mu.player1_votes.v)>> >>
        ELSE <<>>)
    \o (IF mu.player2_votes.opt = "Some"
        THEN << <<macro_m("player2_votes"), u64_to_string(mu.player2_votes.v)>> >>
        ELSE <<>>)
    \o (IF Len(mu.scores_csv) > 0
        THEN << <<macro_m("scores_csv"), MatchScores_fmt(mu.scores_csv)>> >>
        ELSE <<>>)
    \o (IF mu.winner_id.opt = "Some"
        THEN << <<macro_m("winner_id"), u64_to_string(mu.winner_id.v[1])>> >>
        ELSE <<>>)

\* lib.rs: mu_to_pairs
mu_to_pairs(mu) ==
       (IF mu.player1_votes.opt = "Some"
        THEN << <<macro_m("player1_votes"), u64_to_string(mu.player1_votes.v)>> >>
        ELSE <<>>)
    \o (IF mu.player2_votes.opt = "Some"
        THEN << <<macro_m("player2_votes"), u64_to_string(mu.player2_votes.v)>> >>
        ELSE <<>>)
    \o << <<macro_m("scores_csv"), MatchScores_fmt(mu.scores_csv)>> >>
    \o (IF mu.winner_id.opt = "Some"
        THEN << <<macro_m("winner_id"), u64_to_string(mu.winner_id.v[1])>> >>
        ELSE <<>>)

\* the value of the first pair of the field list with the given name
ValueOf(list, name) ==
    list[CHOOSE i \in 1..Len(list) :
             /\ list[i][1] = name
             /\ \A j \in 1..(i - 1) : list[j][1] # name][2]

\* the score lists of at most n scores over the scores of the model
RECURSIVE ScoreLists(_)
ScoreLists(n) ==
    IF n = 0 THEN {<<>>}
    ELSE ScoreLists(n - 1) \cup
         {Append(l, MatchScore(x, y)) :
              l \in {s \in ScoreLists(n - 1) : Len(s) = n - 1},
              x \in {0, MaxId}, y \in {0, MaxId}}

\* the values that the caller hands to the setter of a field
Arguments(t, field) ==
    IF t = "MatchUpdate"
    THEN IF field = "scores_csv" THEN ScoreLists(MaxScores)
         ELSE IF field = "winner_id" THEN {ParticipantId(0), ParticipantId(MaxId)}
         ELSE {0, MaxId}
    ELSE IF t = "AttachmentCreate"
    THEN IF field = "asset" THEN {<<>>, <<104, 105>>, <<255>>, <<104, 195>>}
         ELSE {"", "test"}
    ELSE IF t = "ParticipantCreate"
    THEN IF field = "seed" THEN {1, 2}
         ELSE IF field = "name" THEN {"", "test"}
         ELSE {"test"}
    ELSE IF field \in {"name", "url", "subdomain", "description", "game_name"}
         THEN {"", "test"}
    ELSE IF field = "tournament_type"
         THEN {"SingleElimination", "DoubleElimination", "RoundRobin", "Swiss"}
    ELSE IF field = "ranked_by"
         THEN {"MatchWins", "GameWins", "PointsScored", "PointsDifference", "Custom"}
    ELSE IF field \in {"swiss_points", "round_robin_points"}
         THEN {GamePoints_default,
               GamePoints_new(Float(1, 0), Float(5, -1), Float(0, 0),
                              Float(0, 0), Some(Float(1, 0)))}
    ELSE IF field \in {"swiss_rounds", "signup_cap", "check_in_duration"}
         THEN {0, 4, 60}
    ELSE IF field = "grand_finals_modifier"
         THEN {None, Some("skip")}
    ELSE BOOLEAN

BuildIdle ==
    /\ UNCHANGED <<codecVars, tidVars, decodeVars, indexVars, restVars>>

InitBuild ==
    /\ CodecAtRest /\ TidAtRest /\ DecodeAtRest /\ IndexAtRest
    /\ BuildAtRest /\ RestAtRest

\* TournamentCreate::new(), ParticipantCreate::new(), MatchUpdate::new() or
\* AttachmentCreate::new()
CallNew(t) ==
    /\ builderType = "none"
    /\ builderType' = t
    /\ built' = New(t)
    /\ UNCHANGED <<called, lastArg, batch, pairs, redecoded>>
    /\ BuildIdle

\* one setter call on the structure; no more than MaxSetters distinct
\* setters are called
CallSetter(b, value) ==
    /\ builderType # "none" /\ pairs = NotRun
    /\ b \in Builders(builderType)
    /\ value \in Arguments(builderType, b.field)
    /\ b.field \in called \/ Cardinality(called) < MaxSetters
    /\ built' = CallBuilder(built, b, value)
    /\ called' = called \cup {b.field}
    /\ lastArg' = [f \in called \cup {b.field} |->
                       IF f = b.field THEN value ELSE lastArg[f]]
    /\ UNCHANGED <<builderType, batch, pairs, redecoded>>
    /\ BuildIdle

\* the caller pushes the participant onto the Vec for
\* create_participant_bulk and starts the next one from new()
PushParticipant ==
    /\ builderType = "ParticipantCreate" /\ pairs = NotRun
    /\ Len(batch) < MaxBatch
    /\ batch' = Append(batch, built)
    /\ built' = New("ParticipantCreate")
    /\ called' = {}
    /\ lastArg' = <<>>
    /\ UNCHANGED <<builderType, pairs, redecoded>>
    /\ BuildIdle

\* create_tournament: the field list of the request
CallTcToPairs ==
    /\ builderType = "TournamentCreate" /\ pairs = NotRun
    /\ pairs' = Ret(tc_to_pairs(built))
    /\ UNCHANGED <<builderType, built, called, lastArg, batch, redecoded>>
    /\ BuildIdle

\* create_participant: the field list of the request
CallPcToPairs ==
    /\ builderType = "ParticipantCreate" /\ pairs = NotRun
    /\ batch = <<>>
    /\ pairs' = Ret(pc_to_pairs(built))
    /\ UNCHANGED <<builderType, built, called, lastArg, batch, redecoded>>
    /\ BuildIdle

\* create_participant_bulk: the field list of the request
CallPcsToPairs ==
    /\ builderType = "ParticipantCreate" /\ pairs = NotRun
    /\ called = {}
    /\ pairs' = Ret(pcs_to_pairs(batch))
    /\ UNCHANGED <<builderType, built, called, lastArg, batch, redecoded>>
    /\ BuildIdle

\* create_attachment: the field list of the request, or the panic
CallAtToPairs ==
    /\ builderType = "AttachmentCreate" /\ pairs = NotRun
    /\ pairs' = at_to_pairs(built)
    /\ UNCHANGED <<builderType, built, called, lastArg, batch, redecoded>>
    /\ BuildIdle

\* update_match: the field list of the request
CallMuToPairs ==
    /\ builderType = "MatchUpdate" /\ pairs = NotRun
    /\ pairs' = Ret(mu_to_pairs(built))
    /\ UNCHANGED <<builderType, built, called, lastArg, batch, redecoded>>
    /\ BuildIdle

\* the match[scores_csv] value of the field list is decoded again
Redecode ==
    /\ builderType = "MatchUpdate"
    /\ pairs # NotRun /\ redecoded = NotRun
    /\ redecoded' = Ret(MatchScores_decode(ValueOf(pairs.val, macro_m("scores_csv"))))
    /\ UNCHANGED <<builderType, built, called, lastArg, batch, pairs>>
    /\ BuildIdle

NextBuild ==
    \/ \E t \in BuilderTypes : CallNew(t)
    \/ \E t \in BuilderTypes : \E b \in Builders(t) :
           \E value \in Arguments(t, b.field) : CallSetter(b, value)
    \/ PushParticipant
    \/ CallTcToPairs
    \/ CallPcToPairs
    \/ CallPcsToPairs
    \/ CallAtToPairs
    \/ CallMuToPairs
    \/ Redecode

SpecBuild == InitBuild /\ [][NextBuild]_vars

-----------------------------------------------------------------------------
(* The enumerations as a state machine: a text is handed to from_str of     *)
(* TournamentType or of MatchState; a variant is rendered with Display or   *)
(* with to_get_param, and a rendering can be handed to from_str in turn.    *)

EnumTypes == {"TournamentType", "MatchState"}

Variants(e) ==
    IF e = "TournamentType"
    THEN {"SingleElimination", "DoubleElimination", "RoundRobin", "Swiss"}
    ELSE IF e = "MatchState" THEN {"All", "Pending", "Open", "Complete"}
    ELSE {}

\* str::parse of the enumeration (FromStr::from_str); Err(()) is None
from_str(e, s) ==
    IF e = "TournamentType" THEN TournamentType_from_str(s)
    ELSE MatchState_from_str(s)

\* to_string of a variant of the enumeration (Display)
to_string(e, v) ==
    IF e = "TournamentType" THEN TournamentType_fmt(v) ELSE MatchState_fmt(v)

\* the texts that the model hands to from_str: one or two words of the
\* spellings, in lower case or capitalised, joined in four ways, and two
\* spellings with white space around them
Spellings ==
    {w1 \o sep \o w2 :
        w1 \in {"single", "double", "round", "swiss", "Single", "Swiss",
                "all", "pending", "open", "complete", "Open"},
        sep \in {"", "_", " ", "-"},
        w2 \in {"", "elimination", "robin", "Elimination"}}
    \cup {" swiss", "open "}

InitEnum ==
    /\ CodecAtRest /\ TidAtRest /\ DecodeAtRest /\ IndexAtRest /\ BuildAtRest
    /\ ErrorAtRest /\ RetryAtRest /\ ExtraAtRest
    /\ enumOf \in EnumTypes
    /\ enumText = "" /\ enumParsed = NotRun
    /\ enumValue = NotRun /\ enumShown = NotRun /\ enumParam = NotRun
    /\ enumFrom = NotRun

EnumIdle ==
    UNCHANGED <<codecVars, tidVars, decodeVars, indexVars, buildVars,
                errorVars, retryVars, extraVars>>

\* the service (or the caller) supplies a text
Spell(s) ==
    /\ enumText = "" /\ enumParsed = NotRun /\ enumFrom = NotRun
    /\ s \in Spellings
    /\ enumText' = s
    /\ UNCHANGED <<enumOf, enumParsed, enumValue, enumShown, enumParam, enumFrom>>
    /\ EnumIdle

CallFromStr ==
    /\ enumParsed = NotRun
    /\ enumParsed' = from_str(enumOf, enumText)
    /\ UNCHANGED <<enumOf, enumText, enumValue, enumShown, enumParam, enumFrom>>
    /\ EnumIdle

\* the caller names a variant
Construct(v) ==
    /\ enumValue = NotRun
    /\ v \in Variants(enumOf)
    /\ enumValue' = Ret(v)
    /\ UNCHANGED <<enumOf, enumText, enumParsed, enumShown, enumParam, enumFrom>>
    /\ EnumIdle

CallDisplay ==
    /\ enumValue # NotRun /\ enumShown = NotRun
    /\ enumShown' = Ret(to_string(enumOf, enumValue.val))
    /\ UNCHANGED <<enumOf, enumText, enumParsed, enumValue, enumParam, enumFrom>>
    /\ EnumIdle

CallToGetParam ==
    /\ enumOf = "TournamentType"
    /\ enumValue # NotRun /\ enumParam = NotRun
    /\ enumParam' = Ret(to_get_param(enumValue.val))
    /\ UNCHANGED <<enumOf, enumText, enumParsed, enumValue, enumShown, enumFrom>>
    /\ EnumIdle

\* the Display rendering is the next text for from_str
FeedShown ==
    /\ enumShown # NotRun /\ enumText = "" /\ enumParsed = NotRun
    /\ enumFrom = NotRun
    /\ enumText' = enumShown.val
    /\ enumFrom' = enumValue
    /\ UNCHANGED <<enumOf, enumParsed, enumValue, enumShown, enumParam>>
    /\ EnumIdle

\* the to_get_param rendering is the next text for from_str
FeedParam ==
    /\ enumParam # NotRun /\ enumText = "" /\ enumParsed = NotRun
    /\ enumFrom = NotRun
    /\ enumText' = enumParam.val
    /\ enumFrom' = enumValue
    /\ UNCHANGED <<enumOf, enumParsed, enumValue, enumShown, enumParam>>
    /\ EnumIdle

NextEnum ==
    \/ \E s \in Spellings : Spell(s)
    \/ CallFromStr
    \/ \E e \in EnumTypes : \E v \in Variants(e) : Construct(v)
    \/ CallDisplay
    \/ CallToGetParam
    \/ FeedShown
    \/ FeedParam

SpecEnum == InitEnum /\ [][NextEnum]_vars

-----------------------------------------------------------------------------
(* The conversion of a non-success response into an Error.  The body of a   *)
(* response is a JSON document (held as the value it denotes), a text that  *)
(* is no JSON document, or bytes that are no UTF-8 text.                    *)

\* reqwest::StatusCode::UnprocessableEntity
UnprocessableEntity == 422

JsonBody(value) == [body |-> "Json", value |-> value]
TextBody(text) == [body |-> "Text", text |-> text]
BytesBody == [body |-> "Bytes"]

Error_Status(status, body) ==
    [tag |-> "Err", variant |-> "Status", status |-> status, body |-> body]
Error_ChallongeValidationErrors(errors) ==
    [tag |-> "Err", variant |-> "ChallongeValidationErrors", errors |-> errors]

\* let mut body = String::new(); let _ = response.read_to_string(&mut body):
\* the text of the body, and the empty text when the bytes are no UTF-8
read_to_string(body) == IF body.body = "Bytes" THEN TextBody("") ELSE body

\* Vec<String> deserialized from a JSON value
VecString_deserialize(v) ==
    IF v.kind = "Array" /\ \A i \in 1..Len(v.a) : v.a[i].kind = "String"
    THEN Some([i \in 1..Len(v.a) |-> v.a[i].s])
    ELSE None

\* serde_json::from_str::<ValidationErrorsWrapper>: #[derive(Deserialize)] of
\* struct ValidationErrorsWrapper { errors: Vec<String> } reads the field
\* from an object (other keys are skipped) or from an array of exactly one
\* element
ValidationErrorsWrapper_from_str(body) ==
    IF body.body # "Json" THEN None
    ELSE IF body.value.kind = "Object"
    THEN IF "errors" \in DOMAIN body.value.m
         THEN VecString_deserialize(body.value.m["errors"])
         ELSE None
    ELSE IF body.value.kind = "Array" /\ Len(body.value.a) = 1
    THEN VecString_deserialize(body.value.a[1])
    ELSE None

\* the conversion with no test of the status
Error_from_anyStatus(status, response) ==
    IF ValidationErrorsWrapper_from_str(read_to_string(response)) # None
    THEN Error_ChallongeValidationErrors(
             ValidationErrorsWrapper_from_str(read_to_string(response)).v)
    ELSE Error_Status(status, read_to_string(response))

\* impl From<reqwest::Response> for Error
Error_from(status, response) ==
    IF /\ status = UnprocessableEntity
       /\ ValidationErrorsWrapper_from_str(read_to_string(response)) # None
    THEN Error_ChallongeValidationErrors(
             ValidationErrorsWrapper_from_str(read_to_string(response)).v)
    ELSE Error_Status(status, read_to_string(response))

\* the non-success statuses of the responses
Statuses == {400, 401, 404, 406, UnprocessableEntity, 500}

ErrorTexts == {"a", "b"}

\* the lists of at most n strings
StringLists(n) ==
    UNION {[1..k -> {String(s) : s \in ErrorTexts}] : k \in 0..n}

\* the values under the key "errors"
ErrorsValues ==
    {Array(a) : a \in StringLists(MaxErrors)}
    \cup {String("a"), Null, Array(<<U64(1)>>), Array(<<String("a"), Null>>)}

Merge(f, g) == [k \in DOMAIN f \cup DOMAIN g |->
                   IF k \in DOMAIN f THEN f[k] ELSE g[k]]

Bodies ==
    {JsonBody(Object(Merge([k \in {"errors"} |-> e], more))) :
        e \in ErrorsValues,
        more \in {Empty, [k \in {"code"} |-> U64(1)]}}
    \cup {JsonBody(v) : v \in {Object(Empty),
                              Object([k \in {"error"} |-> Array(<<String("a")>>)]),
                              Array(<<>>),
                              Array(<<String("a")>>),
                              Array(<<Array(<<String("a")>>)>>),
                              Array(<<Array(<<String("a")>>),
                                      Array(<<String("b")>>)>>),
                              String("errors"), Null}}
    \cup {TextBody(""), TextBody("Not Found"), BytesBody}

InitError ==
    /\ CodecAtRest /\ TidAtRest /\ DecodeAtRest /\ IndexAtRest /\ BuildAtRest
    /\ EnumAtRest /\ RetryAtRest /\ ExtraAtRest
    /\ httpStatus = 0 /\ httpBody = NotRun /\ converted = NotRun

ErrorIdle ==
    UNCHANGED <<codecVars, tidVars, decodeVars, indexVars, buildVars,
                enumVars, retryVars, extraVars>>

\* the service answers with a non-success status
Respond(status, body) ==
    /\ httpBody = NotRun
    /\ httpStatus' = status
    /\ httpBody' = body
    /\ UNCHANGED converted
    /\ ErrorIdle

CallErrorFrom ==
    /\ httpBody # NotRun /\ converted = NotRun
    /\ converted' = Error_from(httpStatus, httpBody)
    /\ UNCHANGED <<httpStatus, httpBody>>
    /\ ErrorIdle

NextError ==
    \/ \E status \in Statuses : \E body \in Bodies : Respond(status, body)
    \/ CallErrorFrom

SpecError == InitError /\ [][NextError]_vars

-----------------------------------------------------------------------------
(* retry: the request is built and sent, the outcome goes through           *)
(* check_status, and an Err sends the request once more.  The outcome of a  *)
(* send is a response or an error of the transport.                         *)

Response(status, body) == [kind |-> "Response", status |-> status, body |-> body]
TransportError(error) == [kind |-> "Error", error |-> error]

\* impl From<ReqwestError> for Error
Error_Reqwest(err) == [tag |-> "Err", variant |-> "Reqwest", err |-> err]

\* StatusCode::is_success
is_success(status) == 200 <= status /\ status <= 299

\* check_status with no test of the status
check_status_noStatusTest(response) ==
    IF response.kind = "Error" THEN Error_Reqwest(response.error)
    ELSE Ok(response)

check_status(response) ==
    IF response.kind = "Error" THEN Error_Reqwest(response.error)
    ELSE IF ~is_success(response.status)
    THEN Error_from(response.status, response.body)
    ELSE Ok(response)

\* the closure f2 of retry, applied to the outcome of f().send()
f2(sendResult) == check_status(sendResult)

TransportErrors == {"ConnectionAborted", "ConnectionRefused", "TimedOut"}

\* the outcomes of a send
Outcomes ==
    {TransportError(e) : e \in TransportErrors}
    \cup {Response(status, body) :
            status \in {200, 201, 404, UnprocessableEntity, 500},
            body \in {TextBody(""), JsonBody(Object(Empty)),
                      JsonBody(Object([k \in {"errors"} |->
                                          Array(<<String("a")>>)]))}}

InitRetry ==
    /\ CodecAtRest /\ TidAtRest /\ DecodeAtRest /\ IndexAtRest /\ BuildAtRest
    /\ EnumAtRest /\ ErrorAtRest /\ ExtraAtRest
    /\ sent = <<>> /\ result = NotRun

RetryIdle ==
    UNCHANGED <<codecVars, tidVars, decodeVars, indexVars, buildVars,
                enumVars, errorVars, extraVars>>

\* match f2() { Err(_) => .., other => other }: the first send
FirstAttempt(sendResult) ==
    /\ sent = <<>>
    /\ sent' = <<sendResult>>
    /\ result' = IF f2(sendResult).tag = "Err" THEN NotRun ELSE f2(sendResult)
    /\ RetryIdle

\* Err(_) => f2(): the second send
SecondAttempt(sendResult) ==
    /\ Len(sent) = 1 /\ result = NotRun
    /\ sent' = Append(sent, sendResult)
    /\ result' = f2(sendResult)
    /\ RetryIdle

NextRetry ==
    \/ \E sendResult \in Outcomes : FirstAttempt(sendResult)
    \/ \E sendResult \in Outcomes : SecondAttempt(sendResult)

SpecRetry == InitRetry /\ [][NextRetry]_vars

-----------------------------------------------------------------------------
(* The decoders and the keys they do not read: the service sends a payload  *)
(* of an entity, and a second payload that differs from it in at most       *)
(* MaxExtras keys that no decoder of the entity removes from the map; both  *)
(* are handed to the decoder.  extras holds the changes and the second      *)
(* payload.                                                                 *)

\* keys of the payloads of the tests that the decoder of the entity never
\* removes (tests::test_tournament_parse, tests::test_match_parse), and a
\* key that the tests do not hold
ExtraKeys(e) ==
    IF e = "tournament" THEN {"category", "tie_breaks", "state", "extra"}
    ELSE IF e = "match" THEN {"group_id", "location", "extra"}
    ELSE {"extra"}

\* keys beside the wrapper key in the outer object
OuterKeys == {"extra", "errors"}

\* the key is not in the object
Absent == [kind |-> "Absent"]

\* what the second payload holds under a key: a value, or no such key
ExtraValues == {Absent, String("x")}

\* the payloads of an entity that the service may send: the payload of the
\* tests, the same without its id, under another wrapper key, and with null
\* for its object
ExtraPayloads(e) ==
    { Wrapped(e, Object(Sample(e))),
      Wrapped(e, Object([k \in DOMAIN Sample(e) \ {"id"} |-> Sample(e)[k]])),
      Wrapped("other", Object(Sample(e))),
      Wrapped(e, Null) }

NoExtras(value) == [inner |-> Empty, outer |-> Empty, twin |-> value]

\* the map with the keys of change set to their values or left out
Changed(map, change) ==
    [k \in {j \in DOMAIN map \cup DOMAIN change :
               j \in DOMAIN change => change[j] # Absent} |->
        IF k \in DOMAIN change THEN change[k] ELSE map[k]]

\* the second payload: the outer and the inner object changed
Twin(value, e, inner, outer) ==
    IF value.kind # "Object" THEN value
    ELSE Object([k \in DOMAIN Changed(value.m, outer) |->
                    IF k = e /\ value.m[k].kind = "Object"
                    THEN Object(Changed(value.m[k].m, inner))
                    ELSE Changed(value.m, outer)[k]])

\* the changes with one more key, and the second payload they give
WithInner(ex, value, e, k, v) ==
    [inner |-> (k :> v) @@ ex.inner, outer |-> ex.outer,
     twin |-> Twin(value, e, (k :> v) @@ ex.inner, ex.outer)]

WithOuter(ex, value, e, k, v) ==
    [inner |-> ex.inner, outer |-> (k :> v) @@ ex.outer,
     twin |-> Twin(value, e, ex.inner, (k :> v) @@ ex.outer)]

InitExtra ==
    /\ CodecAtRest /\ TidAtRest /\ IndexAtRest /\ BuildAtRest
    /\ EnumAtRest /\ ErrorAtRest /\ RetryAtRest
    /\ entity \in Entities
    /\ payload = Wrapped(entity, Object(Sample(entity)))
    /\ edits = 0
    /\ outcome = NotRun
    /\ extras = NoExtras(payload)
    /\ twinOutcome = NotRun

ExtraIdle ==
    UNCHANGED <<codecVars, tidVars, indexVars, buildVars,
                enumVars, errorVars, retryVars>>

\* the service sends another payload of the entity
SendPayload(v) ==
    /\ outcome = NotRun /\ edits = 0 /\ extras = NoExtras(payload)
    /\ v \in ExtraPayloads(entity) \ {payload}
    /\ payload' = v
    /\ extras' = NoExtras(v)
    /\ edits' = 1
    /\ UNCHANGED <<entity, outcome, twinOutcome>>
    /\ ExtraIdle

\* the second payload differs in a key of the inner object
ChangeInner(k, v) ==
    /\ outcome = NotRun
    /\ Cardinality(DOMAIN extras.inner) + Cardinality(DOMAIN extras.outer)
           < MaxExtras
    /\ k \in ExtraKeys(entity) \ DOMAIN extras.inner
    /\ extras' = WithInner(extras, payload, entity, k, v)
    /\ UNCHANGED <<entity, payload, edits, outcome, twinOutcome>>
    /\ ExtraIdle

\* the second payload differs in a key beside the wrapper key
ChangeOuter(k, v) ==
    /\ outcome = NotRun
    /\ Cardinality(DOMAIN extras.inner) + Cardinality(DOMAIN extras.outer)
           < MaxExtras
    /\ k \in OuterKeys \ (DOMAIN extras.outer \cup {entity})
    /\ extras' = WithOuter(extras, payload, entity, k, v)
    /\ UNCHANGED <<entity, payload, edits, outcome, twinOutcome>>
    /\ ExtraIdle

\* the results f of the decoder on the payloads a and b
TakeBoth(f, a, b) == outcome' = f[a] /\ twinOutcome' = f[b]

\* both payloads are decoded
CallDecodeBoth ==
    /\ outcome = NotRun
    /\ TakeBoth([v \in {payload, extras.twin} |-> Decode(entity, v)],
                payload, extras.twin)
    /\ UNCHANGED <<entity, payload, edits, extras>>
    /\ ExtraIdle

NextExtra ==
    \/ \E e \in Entities : \E v \in ExtraPayloads(e) : SendPayload(v)
    \/ \E e \in Entities : \E k \in ExtraKeys(e) : \E v \in ExtraValues :
           ChangeInner(k, v)
    \/ \E k \in OuterKeys : \E v \in ExtraValues : ChangeOuter(k, v)
    \/ CallDecodeBoth

SpecExtra == InitExtra /\ [][NextExtra]_vars

-----------------------------------------------------------------------------
(* Vocabulary of the properties of the scalar codec.  It describes strings  *)
(* by the positions of their characters and does not use the operators of   *)
(* the model above.                                                         *)

Positions(s, c) == {i \in 1..Len(s) : Char(s, i) = c}
CountChar(s, c) == Cardinality(Positions(s, c))

\* the position of the n-th occurrence of c in s; Len(s) + 1 when s has
\* fewer than n occurrences; 0 for n = 0
NthPos(s, c, n) ==
    IF n = 0 THEN 0
    ELSE IF n > CountChar(s, c) THEN Len(s) + 1
    ELSE CHOOSE i \in Positions(s, c) :
             Cardinality({j \in Positions(s, c) : j <= i}) = n

\* the text between the (n-1)-th and the n-th occurrence of c
Segment(s, c, n) == SubSeq(s, NthPos(s, c, n - 1) + 1, NthPos(s, c, n) - 1)

\* the text from just after the n-th occurrence of c to the end of s
Remainder(s, c, n) == SubSeq(s, NthPos(s, c, n) + 1, Len(s))

\* s without its leading and trailing white space
Inked(s) == {i \in 1..Len(s) : ~IsWhitespace(Char(s, i))}
Stripped(s) ==
    IF Inked(s) = {} THEN ""
    ELSE SubSeq(s, CHOOSE i \in Inked(s) : \A j \in Inked(s) : i <= j,
                   CHOOSE i \in Inked(s) : \A j \in Inked(s) : j <= i)

AllDigits(s) == Len(s) > 0 /\ \A i \in 1..Len(s) : IsDigit(Char(s, i))

\* s is how Rust's u64 parser spells a non-negative integer
IsNumeral(s) ==
    \/ AllDigits(s)
    \/ Len(s) > 1 /\ Char(s, 1) = "+" /\ AllDigits(SubSeq(s, 2, Len(s)))

\* s is the decimal spelling without sign and without leading zeros
IsCanonical(s) == AllDigits(s) /\ (Len(s) > 1 => Char(s, 1) # "0")

RECURSIVE Pow10(_)
Pow10(n) == IF n = 0 THEN 1 ELSE 10 * Pow10(n - 1)

RECURSIVE SumDigits(_, _)
SumDigits(s, i) ==
    IF i > Len(s) THEN 0
    ELSE (IF IsDigit(Char(s, i)) THEN DigitVal(Char(s, i)) * Pow10(Len(s) - i)
          ELSE 0) + SumDigits(s, i + 1)

\* the number a numeral spells
NumeralValue(s) == SumDigits(s, 1)

\* the value of a component of a score: the number it spells after
\* trimming, 0 when it spells none
Component(s) ==
    IF IsNumeral(Stripped(s)) THEN NumeralValue(Stripped(s)) ELSE 0

-----------------------------------------------------------------------------
(* Properties of the scalar codec. *)

\* the two components of the input of MatchScore::decode as the code cuts
\* them: the text before the first '-' and the text between the first and
\* the second '-' of the trimmed input
FirstText(s) == Segment(Stripped(s), "-", 1)
SecondText(s) == Segment(Stripped(s), "-", 2)

IsPaddedPair(s) ==
    /\ CountChar(s, "-") = 1
    /\ IsCanonical(Stripped(FirstText(s)))
    /\ IsCanonical(Stripped(SecondText(s)))

C7_ScoresPerSegment ==
    scores # NotRun =>
        /\ Len(scores.val) = CountChar(string, ",") + 1
        /\ \A i \in 1..Len(scores.val) :
               /\ Ok(scores.val[i]) = MatchScore_decode(Segment(string, ",", i))
               /\ scores.val[i] = <<Component(FirstText(Segment(string, ",", i))),
                                    Component(SecondText(Segment(string, ",", i)))>>
        /\ (string = "" => scores.val = << <<0, 0>> >>)
        /\ (string = "3-1, 3-2" => scores.val = << <<3, 1>>, <<3, 2>> >>)

\* a list with an empty segment in the middle was decoded to three pairs
C7_Witness ==
    /\ scores # NotRun
    /\ string = "3-1, 3-2,,1"
    /\ scores.val = << <<3, 1>>, <<3, 2>>, <<0, 0>>, <<1, 0>> >>

\* C8 as stated: the second component is parsed from all of the text after
\* the first '-'.
C8_SplitOnFirstDashOnly ==
    score # NotRun =>
        /\ score.val[1] = Component(FirstText(string))
        /\ score.val[2] = Component(Remainder(Stripped(string), "-", 1))

\* C8, amended: MatchScore::decode splits its trimmed input on every '-';
\* the first component is parsed from the text before the first '-' and the
\* second component from the text between the first '-' and the second '-'
\* (from all of the text after the first '-' when there is no second one);
\* the text after a second '-' is ignored.
C8_SplitOnEveryDash ==
    score # NotRun =>
        LET body == Stripped(string)
            d1 == NthPos(body, "-", 1)
            d2 == NthPos(body, "-", 2)
        IN  /\ score.val[1] = Component(SubSeq(body, 1, d1 - 1))
            /\ score.val[2] = Component(SubSeq(body, d1 + 1, d2 - 1))
            /\ CountChar(body, "-") < 2 =>
                   score.val[2] = Component(Remainder(body, "-", 1))

\* an input with two dashes was decoded: the second component is the
\* number between the dashes
C8_Witness ==
    /\ score # NotRun
    /\ string = "3-1-9"
    /\ score.val = <<3, 1>>

\* C9 as stated: the subdomain/slug variant always renders as
\* "{subdomain}-{slug}".
C9_UrlAlwaysDashed ==
    (tidText # NotRun /\ tid.variant = "Url") =>
        tidText.val = tid.subdomain \o "-" \o tid.url

\* C9, amended: TournamentId::Url(subdomain, slug) renders as
\* "{subdomain}-{slug}" for every non-empty subdomain and as the slug alone
\* when the subdomain is empty; TournamentId::Id(n) renders as the decimal
\* digits of n.
C9_TournamentIdDisplay ==
    tidText # NotRun =>
        /\ (tid.variant = "Url" /\ tid.subdomain # "") =>
               tidText.val = tid.subdomain \o "-" \o tid.url
        /\ (tid.variant = "Url" /\ tid.subdomain = "") =>
               tidText.val = tid.url
        /\ tid.variant = "Id" =>
               IsCanonical(tidText.val) /\ NumeralValue(tidText.val) = tid.id

\* a Url with an empty subdomain was rendered
C9_Witness ==
    /\ tidText # NotRun
    /\ tid = TournamentId_Url("", "ab")
    /\ tidText.val = "ab"

-----------------------------------------------------------------------------
(* Properties of the entity decoders. *)

KeysOf(fields) == {fields[i].key : i \in 1..Len(fields)}

\* the keys that the decoder of an entity removes with try! or ?, those of
\* its nested sub-decoder included (pts_for_bye is read with `if let Ok`)
RequiredKeys(e) ==
    CASE e = "tournament" ->
             KeysOf(TournamentHead) \cup KeysOf(TournamentMiddle)
                 \cup KeysOf(TournamentTail)
                 \cup KeysOf(GamePointsFields("")) \cup KeysOf(GamePointsFields("rr_"))
      [] e = "participant" -> KeysOf(ParticipantFields)
      [] e = "match" ->
             KeysOf(MatchHead) \cup KeysOf(MatchTail)
                 \cup KeysOf(PlayerFields("player1_"))
                 \cup KeysOf(PlayerFields("player2_"))
      [] e = "match_attachment" ->
             KeysOf(AttachmentFields) \cup KeysOf(AssetFields)

\* the keys read by a nested sub-decoder
NestedKeys(e) ==
    CASE e = "tournament" ->
             KeysOf(GamePointsFields("")) \cup KeysOf(GamePointsFields("rr_"))
      [] e = "participant" -> {}
      [] e = "match" ->
             KeysOf(PlayerFields("player1_")) \cup KeysOf(PlayerFields("player2_"))
      [] e = "match_attachment" -> KeysOf(AssetFields)

IsDecodeError(r) == r.tag = "Err" /\ r.variant = "Decode"

\* C1: when the top-level value is not an object, or has no wrapper key of
\* the entity, or holds a non-object under the wrapper key, the decoder
\* returns a Decode error: it does not panic and returns no entity.
C1_WrapperRequired ==
    (outcome # NotRun /\ ~WellWrapped) => IsDecodeError(outcome)

\* a payload whose inner object sits under another key was decoded
C1_Witness ==
    /\ outcome # NotRun
    /\ entity = "tournament"
    /\ payload.kind = "Object" /\ DOMAIN payload.m = {"match"}
    /\ outcome = Err("Unexpected absent key", String("tournament"))

\* C2: a required key that is missing from the inner object, also one read
\* by a nested sub-decoder, makes the decode return a Decode error; the
\* decode never panics and returns no entity.
C2_MissingKeyIsDecodeError ==
    (outcome # NotRun /\ WellWrapped /\ RequiredKeys(entity) \ DOMAIN Inner # {})
        => IsDecodeError(outcome)

ValidTimestamp(k) ==
    /\ k \in DOMAIN Inner
    /\ Inner[k].kind = "String"
    /\ IsRfc3339(Inner[k].s)

\* C3: when created_at or updated_at is absent, null, not a string or not a
\* valid RFC 3339 datetime, the decode returns an error value; it does not
\* panic.
C3_BadTimestampIsError ==
    (outcome # NotRun /\ WellWrapped
        /\ (~ValidTimestamp("created_at") \/ ~ValidTimestamp("updated_at")))
        => outcome.tag = "Err"

\* the identifier and counter keys that C4 names
IdentifierKeys(e) ==
    CASE e = "tournament" -> {"id", "game_id"}
      [] e = "participant" -> {"id", "seed", "tournament_id"}
      [] e = "match" -> {"id", "round", "tournament_id"}
      [] e = "match_attachment" -> {"id", "match_id", "user_id"}

\* the number held by the decoded field of an identifier key
NumberOf(e, k, x) ==
    IF (e = "tournament" /\ k = "id") \/ (e = "match" /\ k = "tournament_id")
    THEN x.id
    ELSE x

\* C4: when every key the decoder reads is present and the timestamps are
\* valid, a null or wrong-typed value under any other key does not make the
\* decode fail or panic, and an identifier or counter key with such a value
\* decodes to 0.
C4_PresentKeyNeverFails ==
    (outcome # NotRun /\ WellWrapped
        /\ RequiredKeys(entity) \subseteq DOMAIN Inner
        /\ ValidTimestamp("created_at") /\ ValidTimestamp("updated_at"))
        => /\ outcome.tag = "Ok"
           /\ \A k \in IdentifierKeys(entity) :
                  Inner[k].kind # "U64" =>
                      NumberOf(entity, k, outcome.val[k]) = 0

\* the key under which an entity holds its tournament identifier
TidKey(e) == IF e = "tournament" THEN "id" ELSE "tournament_id"

DecodedWithTid ==
    /\ outcome # NotRun /\ outcome.tag = "Ok"
    /\ entity \in {"tournament", "match"}

\* the JSON number v is the number n
NumberIs(v, n) ==
    \/ v.kind \in {"U64", "I64"} /\ v.n = n
    \/ v.kind = "F64" /\ v.x.exp = 0 /\ v.x.mant = n

\* C10 as stated: the identifier of a decoded Tournament or Match is
\* TournamentId::Id of the JSON number found under its key.
C10_IdEqualsJsonNumber ==
    DecodedWithTid =>
        /\ outcome.val[TidKey(entity)].variant = "Id"
        /\ Inner[TidKey(entity)].kind \in {"U64", "I64", "F64"} =>
               NumberIs(Inner[TidKey(entity)], outcome.val[TidKey(entity)].id)

\* C10, amended: every decoded Tournament and Match holds its tournament
\* identifier in the variant TournamentId::Id, never Url; its number equals
\* the JSON number under "id" / "tournament_id" when that value is a
\* non-negative integer; for any other value under "id" (a negative or
\* fractional number, null, a string) Tournament::decode yields Id(0), and
\* Match::decode returns no Match for such a value under "tournament_id".
C10_IdIsNumericVariant ==
    DecodedWithTid =>
        LET v == Inner[TidKey(entity)]
            t == outcome.val[TidKey(entity)]
            nonNegInt == v.kind = "U64" \/ (v.kind = "I64" /\ v.n >= 0)
        IN  /\ t.variant = "Id"
            /\ nonNegInt => t.id = v.n
            /\ (entity = "tournament" /\ ~nonNegInt) => t.id = 0
            /\ entity = "match" => nonNegInt

\* a tournament with a negative number under "id" was decoded to Id(0)
C10_Witness ==
    /\ DecodedWithTid
    /\ entity = "tournament"
    /\ Inner["id"] = I64(-1)
    /\ outcome.val["id"] = TournamentId_Id(0)

-----------------------------------------------------------------------------
(* Properties of Match::decode and Attachment::decode. *)

MatchDecoded ==
    outcome # NotRun /\ entity = "match" /\ outcome.tag = "Ok"

\* C11: MatchState::All is never the state of a decoded Match: whatever the
\* value under "state" (a known spelling, an unknown string, null, "all"),
\* the state of a Match that Match::decode returns is Pending, Open or
\* Complete.
C11_StateNeverAll ==
    MatchDecoded => outcome.val["state"] \in {"Pending", "Open", "Complete"}

\* the payload of tests::test_participant_parse with another value under
\* one key
SampleBut(e, k) ==
    /\ outcome # NotRun /\ entity = e /\ WellWrapped
    /\ DOMAIN Inner = DOMAIN Sample(e)
    /\ \A j \in DOMAIN Inner \ {k} : Inner[j] = Sample(e)[j]

\* C12: the round of a Match is signed: when "round" is a negative JSON
\* integer, Match::decode succeeds and the Match holds that negative value.
C12_NegativeRoundDecodes ==
    (SampleBut("match", "round")
        /\ Inner["round"].kind = "I64" /\ Inner["round"].n < 0)
        => /\ outcome.tag = "Ok"
           /\ outcome.val["round"] = Inner["round"].n

AttachmentDecoded ==
    outcome # NotRun /\ entity = "match_attachment" /\ outcome.tag = "Ok"

\* the keys of the optional strings of an Attachment and of its Asset
OptionalStringKeys ==
    {"url", "description", "original_file_name",
     "asset_file_name", "asset_content_type", "asset_url"}

\* the decoded field of a key of the attachment object; the Asset holds the
\* fields of the asset_* keys under their names without that prefix
OptionOf(k) ==
    IF Len(k) > 6 /\ SubSeq(k, 1, 6) = "asset_"
    THEN outcome.val["asset"][SubSeq(k, 7, Len(k))]
    ELSE outcome.val[k]

IsJsonNumber(v) == v.kind \in {"U64", "I64", "F64"}
IsNonNegInt(v) == v.kind = "U64" \/ (v.kind = "I64" /\ v.n >= 0)

\* the strings and the null of the sample decode as the test asserts
AttachmentSampleDecodes ==
    SampleBut("match_attachment", "id") /\ Inner = AttachmentSample =>
        /\ outcome.tag = "Ok"
        /\ outcome.val["url"] = Some("")
        /\ outcome.val["description"] = Some("discord")
        /\ outcome.val["original_file_name"] = None
        /\ outcome.val["asset"] =
               [file_name |-> None, content_type |-> None,
                file_size |-> None, url |-> None]

\* each optional string decodes from its own key: a string to Some of it,
\* the empty string included, and null to None
OptionalStringsDecode ==
    AttachmentDecoded =>
        \A k \in OptionalStringKeys :
            /\ Inner[k].kind = "String" => OptionOf(k) = Some(Inner[k].s)
            /\ Inner[k] = Null => OptionOf(k) = None

\* C13 as stated: asset_file_size decodes to Some(n) for every JSON number.
C13_FileSizeOfAnyNumber ==
    /\ AttachmentSampleDecodes
    /\ OptionalStringsDecode
    /\ AttachmentDecoded =>
           /\ IsJsonNumber(Inner["asset_file_size"]) =>
                  /\ OptionOf("asset_file_size") # None
                  /\ Inner["asset_file_size"].kind # "F64" =>
                         OptionOf("asset_file_size").v = Inner["asset_file_size"].n
           /\ Inner["asset_file_size"] = Null =>
                  OptionOf("asset_file_size") = None

\* C13, amended: each optional string field of Attachment::decode (url,
\* description, original_file_name, asset file_name, content_type, url)
\* decodes independently of the others, a JSON string, the empty string
\* included, to Some(that string) and null to None; asset_file_size decodes
\* to Some(n) for a non-negative integer n and to None for null and for a
\* negative or fractional number; an empty string is never turned into None
\* and the four Asset fields can all be None while the Attachment decodes.
C13_OptionalFields ==
    /\ AttachmentSampleDecodes
    /\ OptionalStringsDecode
    /\ AttachmentDecoded =>
           /\ IsNonNegInt(Inner["asset_file_size"]) =>
                  OptionOf("asset_file_size") = Some(Inner["asset_file_size"].n)
           /\ (IsJsonNumber(Inner["asset_file_size"])
                   /\ ~IsNonNegInt(Inner["asset_file_size"])) =>
                  OptionOf("asset_file_size") = None
           /\ Inner["asset_file_size"] = Null =>
                  OptionOf("asset_file_size") = None

\* an attachment with a negative asset_file_size was decoded; its url is
\* the empty string
C13_Witness ==
    /\ AttachmentDecoded
    /\ Inner["asset_file_size"] = I64(-1)
    /\ outcome.val["asset"]["file_size"] = None
    /\ outcome.val["url"] = Some("")

PlayerKeys(prefix) ==
    {prefix \o "id", prefix \o "is_prereq_match_loser",
     prefix \o "prereq_match_id", prefix \o "votes"}

\* the Player that the four prefixed values of the match object describe
PlayerOf(m, prefix) ==
    [id |-> IF IsNonNegInt(m[prefix \o "id"])
            THEN m[prefix \o "id"].n ELSE 0,
     is_prereq_match_loser |->
            IF m[prefix \o "is_prereq_match_loser"].kind = "Bool"
            THEN m[prefix \o "is_prereq_match_loser"].b ELSE FALSE,
     prereq_match_id |->
            IF IsNonNegInt(m[prefix \o "prereq_match_id"])
            THEN Some(m[prefix \o "prereq_match_id"].n) ELSE None,
     votes |-> IF IsNonNegInt(m[prefix \o "votes"])
               THEN m[prefix \o "votes"].n ELSE 0]

\* C14: Match::decode builds player1 only from the four player1_* keys and
\* player2 only from the four player2_* keys of the flattened match object:
\* a player whose four values are those of the sample decodes as in the
\* sample whatever the other keys hold, a null votes decodes to 0 and a null
\* prereq_match_id to None.
C14_PlayersFromOwnKeys ==
    /\ (SampleBut("match", "player2_votes") /\ Inner["player2_votes"] = Null)
           => outcome.tag = "Ok"
    /\ MatchDecoded =>
        /\ outcome.val["player1"] = PlayerOf(Inner, "player1_")
        /\ outcome.val["player2"] = PlayerOf(Inner, "player2_")
        /\ (\A k \in PlayerKeys("player1_") : Inner[k] = MatchSample[k]) =>
               outcome.val["player1"] =
                   [id |-> 16543993, is_prereq_match_loser |-> FALSE,
                    prereq_match_id |-> None, votes |-> 0]
        /\ (\A k \in PlayerKeys("player2_") : Inner[k] = MatchSample[k]) =>
               outcome.val["player2"] =
                   [id |-> 16543997, is_prereq_match_loser |-> FALSE,
                    prereq_match_id |-> None, votes |-> 3]
        /\ \A p \in {"player1", "player2"} :
               /\ Inner[p \o "_votes"] = Null => outcome.val[p]["votes"] = 0
               /\ Inner[p \o "_prereq_match_id"] = Null =>
                      outcome.val[p]["prereq_match_id"] = None

\* a match whose player2_votes was changed to null was decoded: player2 has
\* 0 votes and player1 is the player of the sample
C14_Witness ==
    /\ MatchDecoded
    /\ Inner["player2_votes"] = Null
    /\ outcome.val["player2"]["votes"] = 0
    /\ outcome.val["player1"]["id"] = 16543993

-----------------------------------------------------------------------------
(* Properties of the optional timestamps. *)

\* the entities that hold an optional timestamp, and its key
WithOptionalTimestamp == {"tournament", "match", "participant"}
OptionalTimestampKey(e) ==
    IF e = "participant" THEN "checked_in_at" ELSE "started_at"

\* the decoder was called on the payload of the tests of the entity, but
\* for the key k, which holds any value or is absent
SampleButMaybeAbsent(e, k) ==
    /\ outcome # NotRun /\ entity = e /\ WellWrapped
    /\ DOMAIN Sample(e) \ {k} \subseteq DOMAIN Inner
    /\ \A j \in DOMAIN Sample(e) \ {k} : Inner[j] = Sample(e)[j]

\* C18 as stated: an optional timestamp whose key is absent or holds null
\* decodes to None and the decode of the entity succeeds.
C18_AbsentOrNullIsNone ==
    \A e \in WithOptionalTimestamp :
        LET k == OptionalTimestampKey(e) IN
        (SampleButMaybeAbsent(e, k)
            /\ (k \notin DOMAIN Inner \/ Inner[k] = Null))
            => /\ outcome.tag = "Ok"
               /\ outcome.val[k] = None

\* C18, amended: for every optional timestamp field (Tournament.started_at,
\* Match.started_at, Participant.checked_in_at): when the source key is
\* present with the value null, the field of the decoded entity is None and
\* the null causes no failure (a payload that is otherwise the valid payload
\* of the tests decodes); when the key is absent from the inner object, the
\* decode returns the Decode error "Unexpected absent key" naming the key.
C18_NullIsNoneAbsentIsError ==
    \A e \in WithOptionalTimestamp :
        LET k == OptionalTimestampKey(e) IN
        /\ (SampleButMaybeAbsent(e, k) /\ k \in DOMAIN Inner /\ Inner[k] = Null)
               => /\ outcome.tag = "Ok"
                  /\ outcome.val[k] = None
        /\ (outcome # NotRun /\ entity = e /\ outcome.tag = "Ok"
                /\ k \in DOMAIN Inner /\ Inner[k] = Null)
               => outcome.val[k] = None
        /\ (outcome # NotRun /\ entity = e /\ WellWrapped
                /\ k \notin DOMAIN Inner)
               => outcome = Err("Unexpected absent key", String(k))

\* a match whose started_at was changed to null was decoded
C18_Witness ==
    /\ outcome # NotRun /\ entity = "match" /\ WellWrapped
    /\ Inner["started_at"] = Null
    /\ outcome.tag = "Ok"
    /\ outcome.val["started_at"] = None

-----------------------------------------------------------------------------
(* Properties of decode_array and of Index::decode. *)

IsArray == array.kind = "Array"

\* what the decoder of the entity makes of the i-th element on its own
ElementResult(i) == Decode(indexOf, array.a[i])

\* the array of tests::test_index_parse
TestIndexArray ==
    Array(<< Wrapped("match_attachment", Object(AttachmentSample)),
             Wrapped("match_attachment", Object(AttachmentSample2)) >>)

\* C15: when every element of the JSON array decodes on its own,
\* Index::decode returns Ok with as many entities as the array has elements,
\* the i-th entity being the decode of the i-th element; an empty array
\* gives an empty collection and the array of tests::test_index_parse gives
\* its two attachments in order.
C15_IndexKeepsLengthAndOrder ==
    (collection # NotRun /\ IsArray
        /\ \A i \in 1..Len(array.a) : ElementResult(i).tag = "Ok")
        => /\ collection.tag = "Ok"
           /\ Len(collection.val) = Len(array.a)
           /\ \A i \in 1..Len(array.a) :
                  collection.val[i] = ElementResult(i).val
           /\ (array = Array(<<>>) => collection = Ok(<<>>))
           /\ (indexOf = "match_attachment" /\ array = TestIndexArray) =>
                  /\ collection.val[1]["id"] = 165418
                  /\ collection.val[2]["id"] = 165417
                  /\ collection.val[2]["description"] = Some("test description")

\* the array of tests::test_index_parse was decoded to two attachments
C15_Witness ==
    /\ collection # NotRun
    /\ indexOf = "match_attachment"
    /\ array = TestIndexArray
    /\ collection.tag = "Ok"
    /\ Len(collection.val) = 2
    /\ collection.val[2]["id"] = 165417

\* C16: decode_array returns no partial result. When the decoder returns
\* Err on an element and Ok on all elements before it, the call returns
\* that Err; when any element does not decode, the call returns no
\* collection; when the value is not an array, the call returns a Decode
\* error.
C16_NoPartialResult ==
    /\ (collection # NotRun /\ IsArray) =>
           /\ \A i \in 1..Len(array.a) :
                  (/\ ElementResult(i).tag = "Err"
                   /\ \A j \in 1..(i - 1) : ElementResult(j).tag = "Ok")
                      => collection = ElementResult(i)
           /\ (\E i \in 1..Len(array.a) : ElementResult(i).tag # "Ok")
                  => collection.tag # "Ok"
    /\ (collection # NotRun /\ ~IsArray) => IsDecodeError(collection)

\* an array of an element that decodes and an element without its id was
\* decoded: the result is the error of the second element
C16_Witness ==
    /\ collection # NotRun
    /\ indexOf = "match"
    /\ array = Array(<< Wrapped("match", Object(MatchSample)),
                        Wrapped("match", Object([k \in DOMAIN MatchSample \ {"id"}
                                                    |-> MatchSample[k]])) >>)
    /\ collection = Err("Unexpected absent key", String("id"))

\* the element on which the call ended: the first that did not decode
FirstFailing ==
    CHOOSE i \in 1..Len(array.a) :
        /\ ElementResult(i).tag # "Ok"
        /\ \A j \in 1..(i - 1) : ElementResult(j).tag = "Ok"

\* the JSON values that are being decoded when the array is handed to
\* Index::decode: the array, its elements and the values under their keys
ValuesBeingDecoded ==
    {array}
    \cup (IF IsArray THEN {array.a[i] : i \in 1..Len(array.a)} ELSE {})
    \cup (IF IsArray
          THEN UNION {{array.a[i].m[k] : k \in DOMAIN array.a[i].m} :
                      i \in {j \in 1..Len(array.a) : array.a[j].kind = "Object"}}
          ELSE {})

\* C17 as stated: every Decode failure of into_map, remove and decode_array
\* carries a fixed description and the JSON value that was being decoded.
C17_ErrorEchoesDecodedValue ==
    (collection # NotRun /\ collection.tag = "Err") =>
        /\ collection.desc \in
               {"Expected object", "Unexpected absent key", "Error decoding object"}
        /\ collection.val \in ValuesBeingDecoded

\* C17, amended: every Decode failure carries a fixed description. into_map
\* on a non-object returns "Expected object" with the offending value
\* unchanged and decode_array on a non-array returns "Error decoding object"
\* with the offending value unchanged; a failure of remove carries
\* "Unexpected absent key" and, as its value, the name of the absent key as
\* a JSON string, not the object that was being decoded.
C17_ErrorDescribesFailure ==
    /\ (collection # NotRun /\ ~IsArray) =>
           collection = Err("Error decoding object", array)
    /\ (collection # NotRun /\ collection.tag = "Err" /\ IsArray) =>
           LET x == array.a[FirstFailing] IN
           IF x.kind # "Object"
           THEN collection = Err("Expected object", x)
           ELSE IF indexOf \notin DOMAIN x.m
           THEN collection = Err("Unexpected absent key", String(indexOf))
           ELSE IF x.m[indexOf].kind # "Object"
           THEN collection = Err("Expected object", x.m[indexOf])
           ELSE /\ collection.desc = "Unexpected absent key"
                /\ collection.val.kind = "String"
                /\ collection.val.s \notin DOMAIN x.m[indexOf].m
                /\ collection.val.s \in RequiredKeys(indexOf)

\* an array whose only element lacks its id was decoded: the error carries
\* the name of the key
C17_Witness ==
    /\ collection # NotRun /\ IsArray
    /\ Len(array.a) = 1
    /\ indexOf = "tournament"
    /\ collection = Err("Unexpected absent key", String("id"))

-----------------------------------------------------------------------------
(* Properties of the Create/Update structures. *)

\* the scores_csv value of a MatchUpdate was encoded and decoded again
ScoresRedecoded == builderType = "MatchUpdate" /\ redecoded # NotRun

\* C19 as stated: for every MatchScores list held by a MatchUpdate, of any
\* length including zero, decoding the match[scores_csv] value of the field
\* list gives the same list of pairs in the same order.
C19_ScoresRoundTrip ==
    ScoresRedecoded => redecoded.val = built.scores_csv

\* C19, amended: for every MatchScores list of at least one score held by a
\* MatchUpdate, decoding the match[scores_csv] value of the field list gives
\* the same list of pairs in the same order; the empty list is rendered as
\* the empty string, which decodes to the one pair (0, 0).
C19_NonEmptyScoresRoundTrip ==
    ScoresRedecoded =>
        /\ Len(built.scores_csv) >= 1 => redecoded.val = built.scores_csv
        /\ Len(built.scores_csv) = 0 => redecoded.val = <<MatchScore(0, 0)>>

\* a list of two different scores was set, encoded next to a winner and
\* decoded again
C19_Witness ==
    /\ ScoresRedecoded
    /\ "scores_csv" \in called /\ "winner_id" \in called
    /\ Len(built.scores_csv) = 2
    /\ built.scores_csv[1] # built.scores_csv[2]
    /\ built.scores_csv[1][1] # built.scores_csv[1][2]
    /\ Len(pairs.val) = 2

\* the fields of TournamentCreate whose defaults are documented by the
\* service, with the value that new() gives each
DocumentedDefaults ==
    { <<"signup_cap", Ret(4)>>, <<"check_in_duration", Ret(60)>>,
      <<"notify_users_when_matches_open", Ret(TRUE)>>,
      <<"notify_users_when_the_tournament_ends", Ret(TRUE)>> }

RECURSIVE Count(_, _)
Count(list, name) ==
    IF Len(list) = 0 THEN 0
    ELSE (IF Head(list)[1] = name THEN 1 ELSE 0) + Count(Tail(list), name)

\* the Option fields of each structure
OptionalFields(t) ==
    IF t = "TournamentCreate"
    THEN {"game_name", "start_at", "grand_finals_modifier"}
    ELSE IF t = "ParticipantCreate" THEN {"name", "challonge_username"}
    ELSE IF t = "AttachmentCreate" THEN {"asset", "url", "description"}
    ELSE IF t = "MatchUpdate" THEN {"winner_id", "player1_votes", "player2_votes"}
    ELSE {}

\* the wire key of a field: the name of the structure on the wire, then the
\* field in brackets
WireKey(t, field) ==
    (IF t = "TournamentCreate" THEN "tournament"
     ELSE IF t = "ParticipantCreate" THEN "participant"
     ELSE IF t = "AttachmentCreate" THEN "match_attachment"
     ELSE "match") \o "[" \o field \o "]"

BulkKey(field) == "participant[][" \o field \o "]"

\* how many participants of the Vec have the field set
RECURSIVE HowManySome(_, _)
HowManySome(list, field) ==
    IF Len(list) = 0 THEN 0
    ELSE (IF Head(list)[field].opt = "Some" THEN 1 ELSE 0)
         + HowManySome(Tail(list), field)

\* C21 as stated: for each encoder and each optional field of the structure
\* it encodes, the field list holds a pair for the field if and only if the
\* field is Some, and then exactly once; the encoder of a structure with a
\* Some field returns a field list that does not leave the field out.
C21_OptionalPairIffSome ==
    (builderType # "none" /\ pairs # NotRun) =>
        /\ pairs.tag = "Ret"
        /\ batch = <<>> =>
               \A f \in OptionalFields(builderType) :
                   Count(pairs.val, WireKey(builderType, f))
                       = IF built[f].opt = "Some" THEN 1 ELSE 0
        /\ batch # <<>> =>
               \A f \in OptionalFields(builderType) :
                   Count(pairs.val, BulkKey(f)) = HowManySome(batch, f)

\* C26: mu_to_pairs emits match[scores_csv] exactly once for every
\* MatchUpdate, also for the empty score list and with or without a winner,
\* so a field list with match[winner_id] also holds match[scores_csv]; a
\* MatchUpdate with a winner and no scores is encoded without error.
C26_ScoresAlwaysSent ==
    (builderType = "MatchUpdate" /\ pairs # NotRun) =>
        /\ pairs.tag = "Ret"
        /\ Count(pairs.val, "match[scores_csv]") = 1
        /\ Count(pairs.val, "match[winner_id]") > 0 =>
               Count(pairs.val, "match[scores_csv]") > 0
        /\ built.scores_csv = <<>> => ValueOf(pairs.val, "match[scores_csv]") = ""

\* a MatchUpdate with a winner and the empty score list was encoded
C26_Witness ==
    /\ builderType = "MatchUpdate"
    /\ called = {"winner_id"} /\ built.scores_csv = <<>>
    /\ pairs.tag = "Ret"
    /\ Count(pairs.val, "match[winner_id]") = 1
    /\ Count(pairs.val, "match[scores_csv]") = 1

\* the fields whose setter wraps its argument in Some
WrappingSetters(t) ==
    IF t = "TournamentCreate" THEN {"game_name"}
    ELSE OptionalFields(t)

\* C24 as stated: every field of the four structures has a setter, and a
\* call of it makes the field hold another value than the default of new().
C24_EveryFieldHasSetter ==
    builderType # "none" =>
        \A f \in DOMAIN built :
            \E b \in Builders(builderType) :
                /\ b.field = f
                /\ \E v \in Arguments(builderType, f) :
                       Ret(CallBuilder(New(builderType), b, v)[f])
                           # Ret(New(builderType)[f])

\* what a field holds after its setter was called with the argument
Stored(t, field, arg) ==
    IF field \in WrappingSetters(t) THEN Some(arg) ELSE arg

\* C25: after any sequence of setter calls each field holds the value given
\* by the last call of its own setter, or the default of new() if that
\* setter was never called; a call of a setter that was called commutes
\* with a call of the setter of any other field.
C25_LastCallWins ==
    builderType # "none" =>
        /\ \A f \in DOMAIN built :
               IF f \in called
               THEN Ret(built[f]) = Ret(Stored(builderType, f, lastArg[f]))
               ELSE Ret(built[f]) = Ret(New(builderType)[f])
        /\ \A b1 \in Builders(builderType) : \A b2 \in Builders(builderType) :
               (b1.field \in called /\ b1.field # b2.field) =>
                   \A v1 \in Arguments(builderType, b1.field) :
                   \A v2 \in Arguments(builderType, b2.field) :
                       CallBuilder(CallBuilder(built, b1, v1), b2, v2)
                           = CallBuilder(CallBuilder(built, b2, v2), b1, v1)

\* the setter of name was called after that of signup_cap, and twice with
\* different arguments; the other fields are as new() left them
C25_Witness ==
    /\ builderType = "TournamentCreate"
    /\ called = {"name", "signup_cap"}
    /\ lastArg.name = "test" /\ built.name = "test"
    /\ lastArg.signup_cap = 0 /\ built.signup_cap = 0
    /\ built.check_in_duration = 60

\* one structure is being built: the step is neither new() nor the push of
\* the participant onto the Vec
SameStructure == builderType' = builderType /\ batch' = batch

\* C29: the optional fields whose setter is made by builder_o or builder_so
\* are None after new(), are Some once their setter was called, and no
\* setter call puts them back to None; grand_finals_modifier, whose setter
\* takes an Option, can be put back to None, and it is the only optional
\* field for which that is so.
C29_SomeStaysSome ==
    /\ [](builderType # "none" =>
            /\ \A f \in WrappingSetters(builderType) :
                   built[f].opt = (IF f \in called THEN "Some" ELSE "None")
            /\ (builderType = "TournamentCreate"
                    /\ built.grand_finals_modifier.opt = "Some") =>
                   \E b \in Builders(builderType) :
                       /\ b.field = "grand_finals_modifier"
                       /\ CallBuilder(built, b, None).grand_finals_modifier = None)
    /\ [][(builderType # "none" /\ SameStructure) =>
            \A f \in OptionalFields(builderType) \ {"grand_finals_modifier"} :
                built[f].opt = "Some" => built'[f].opt = "Some"]_vars

\* the name of a participant was set to the empty string after it was set:
\* it is Some("")
C29_Witness ==
    /\ builderType = "ParticipantCreate"
    /\ called = {"name", "seed"}
    /\ built.name = Some("")
    /\ built.challonge_username = None

-----------------------------------------------------------------------------
(* Properties of the enumerations. *)

\* the words of the spellings of a variant
WordsOf(v) ==
    IF v = "SingleElimination" THEN <<"single", "elimination">>
    ELSE IF v = "DoubleElimination" THEN <<"double", "elimination">>
    ELSE IF v = "RoundRobin" THEN <<"round", "robin">>
    ELSE IF v = "Swiss" THEN <<"swiss">>
    ELSE IF v = "All" THEN <<"all">>
    ELSE IF v = "Pending" THEN <<"pending">>
    ELSE IF v = "Open" THEN <<"open">>
    ELSE <<"complete">>

\* the words of a variant joined by the separator
Joined(v, sep) ==
    IF Len(WordsOf(v)) = 1 THEN WordsOf(v)[1]
    ELSE WordsOf(v)[1] \o sep \o WordsOf(v)[2]

\* the variants that the text spells, with the underscore or the space
SpelledBy(e, s) ==
    {v \in Variants(e) :
        s = Joined(v, "_") \/ (e = "TournamentType" /\ s = Joined(v, " "))}

\* C22: from_str of TournamentType maps the underscore and the space
\* spelling of each variant to the variant and rejects every other text;
\* Display writes the space spelling and to_get_param the underscore
\* spelling; from_str gives back the variant from the Display rendering and
\* from the to_get_param rendering, for TournamentType and (Display) for
\* MatchState.
C22_EnumSpellings ==
    /\ enumParsed # NotRun =>
           /\ SpelledBy(enumOf, enumText) = {} => enumParsed = None
           /\ \A v \in SpelledBy(enumOf, enumText) : enumParsed = Some(v)
    /\ (enumOf = "TournamentType" /\ enumShown # NotRun) =>
           enumShown.val = Joined(enumValue.val, " ")
    /\ enumParam # NotRun => enumParam.val = Joined(enumValue.val, "_")
    /\ (enumFrom # NotRun /\ enumParsed # NotRun) =>
           enumParsed = Some(enumFrom.val)

\* RoundRobin was rendered by to_get_param and read back by from_str
C22_Witness ==
    /\ enumOf = "TournamentType"
    /\ enumFrom = Ret("RoundRobin")
    /\ enumShown = Ret("round robin")
    /\ enumText = "round_robin"
    /\ enumParsed = Some("RoundRobin")

-----------------------------------------------------------------------------
(* Properties of the conversion of a response into an Error. *)

\* the body is a JSON object whose key "errors" holds an array of strings
MatchesValidationShape(body) ==
    /\ body.body = "Json"
    /\ body.value.kind = "Object"
    /\ "errors" \in DOMAIN body.value.m
    /\ body.value.m["errors"].kind = "Array"
    /\ \A i \in 1..Len(body.value.m["errors"].a) :
           body.value.m["errors"].a[i].kind = "String"

\* the strings under "errors", in their order
ErrorStrings(body) ==
    [i \in 1..Len(body.value.m["errors"].a) |-> body.value.m["errors"].a[i].s]

\* the body is an array whose only element is an array of strings
MatchesSequenceForm(body) ==
    /\ body.body = "Json"
    /\ body.value.kind = "Array"
    /\ Len(body.value.a) = 1
    /\ body.value.a[1].kind = "Array"
    /\ \A i \in 1..Len(body.value.a[1].a) : body.value.a[1].a[i].kind = "String"

\* the body as a String holds it: the text of the body, and the empty text
\* for bytes that are no UTF-8 text
BodyText(body) == IF body = BytesBody THEN TextBody("") ELSE body

\* C23 as stated: a body of the validation shape gives the validation
\* variant with its strings in order, whatever the status, and every other
\* body gives Status with the status and the raw body.
C23_ShapeAlone ==
    converted # NotRun =>
        IF MatchesValidationShape(httpBody)
        THEN converted = Error_ChallongeValidationErrors(ErrorStrings(httpBody))
        ELSE converted = Error_Status(httpStatus, BodyText(httpBody))

\* C23: a response of status 422 whose body has the validation shape gives
\* the validation variant with exactly the strings of "errors" in order (so
\* does the one-element array form of the wrapper); every other response
\* gives Status with the status code and the raw body.
C23_ValidationOnlyOn422 ==
    converted # NotRun =>
        IF httpStatus = 422 /\ MatchesValidationShape(httpBody)
        THEN converted = Error_ChallongeValidationErrors(ErrorStrings(httpBody))
        ELSE IF httpStatus = 422 /\ MatchesSequenceForm(httpBody)
        THEN /\ converted.variant = "ChallongeValidationErrors"
             /\ Len(converted.errors) = Len(httpBody.value.a[1].a)
             /\ \A i \in 1..Len(converted.errors) :
                    converted.errors[i] = httpBody.value.a[1].a[i].s
        ELSE /\ converted.variant = "Status"
             /\ converted.status = httpStatus
             /\ converted.body = BodyText(httpBody)

\* a 422 whose body holds two different strings beside another key became
\* the validation variant
C23_Witness ==
    /\ httpStatus = 422
    /\ httpBody # NotRun
    /\ MatchesValidationShape(httpBody)
    /\ "code" \in DOMAIN httpBody.value.m
    /\ converted = Error_ChallongeValidationErrors(<<"b", "a">>)

-----------------------------------------------------------------------------
(* Properties of retry. *)

\* the outcome of a send is a response with a success status
IsSuccess(sendResult) ==
    sendResult.kind = "Response" /\ sendResult.status \in 200..299

\* the result is the outcome handed on as it is: the response when it is a
\* success, an error of the transport as Reqwest, and a response of
\* another status as Status or ChallongeValidationErrors
ReturnedAsIs(res, sendResult) ==
    IF IsSuccess(sendResult) THEN res = Ok(sendResult)
    ELSE IF sendResult.kind = "Error"
    THEN res = Error_Reqwest(sendResult.error)
    ELSE /\ res.tag = "Err"
         /\ res.variant \in {"Status", "ChallongeValidationErrors"}
         /\ res.variant = "Status" =>
                res.status = sendResult.status /\ res.body = sendResult.body

\* C27: the request is sent a second time only when the first attempt failed
\* with the transport error ConnectionAborted; every other outcome of the
\* first attempt is returned with no second send.
C27_ResendOnlyOnConnectionAborted ==
    /\ Len(sent) = 2 => sent[1] = TransportError("ConnectionAborted")
    /\ (result # NotRun /\ sent[1] # TransportError("ConnectionAborted")) =>
           ReturnedAsIs(result, sent[1])

-----------------------------------------------------------------------------
(* Properties of the decoders on payloads that differ in unread keys. *)

\* the keys that the decoder of an entity removes from the inner object
ReadKeys(e) ==
    RequiredKeys(e)
        \cup (IF e = "tournament" THEN {"pts_for_bye", "rr_pts_for_bye"} ELSE {})

TwinPayload == extras.twin

\* the two values hold the same under the key, or both hold nothing
SameUnder(a, b, k) ==
    /\ k \in DOMAIN a <=> k \in DOMAIN b
    /\ k \in DOMAIN a => a[k] = b[k]

\* the two payloads agree on every key that the decoder reads: they are
\* the same value that is no object, or objects that hold the same under
\* the wrapper key, or hold objects there that agree on the keys read
AgreeOnReadKeys ==
    IF payload.kind # "Object" THEN TwinPayload = payload
    ELSE /\ TwinPayload.kind = "Object"
         /\ entity \in DOMAIN payload.m <=> entity \in DOMAIN TwinPayload.m
         /\ entity \in DOMAIN payload.m =>
                IF payload.m[entity].kind # "Object"
                THEN TwinPayload.m[entity] = payload.m[entity]
                ELSE /\ TwinPayload.m[entity].kind = "Object"
                     /\ \A k \in ReadKeys(entity) :
                            SameUnder(payload.m[entity].m,
                                      TwinPayload.m[entity].m, k)

\* C30: two payloads that agree on every key the decoder of the entity
\* reads decode to the same outcome, the same entity or the same error,
\* whatever other keys the inner and the outer object hold.
C30_UnreadKeysDoNotMatter ==
    (outcome # NotRun /\ AgreeOnReadKeys) => twinOutcome = outcome

\* a tournament was decoded from two payloads that differ in "category" and
\* in a key beside "tournament"; a payload without "id" gave its error twice
C30_Witness ==
    /\ outcome # NotRun /\ AgreeOnReadKeys
    /\ TwinPayload # payload
    /\ \/ /\ entity = "tournament" /\ outcome.tag = "Ok"
          /\ "category" \in DOMAIN extras.inner
          /\ extras.inner["category"] = String("x")
          /\ "errors" \in DOMAIN extras.outer
          /\ extras.outer["errors"] # Absent
       \/ /\ entity = "match" /\ outcome.tag = "Err"
          /\ payload.kind = "Object" /\ entity \in DOMAIN payload.m
          /\ payload.m[entity].kind = "Object"
          /\ "id" \notin DOMAIN payload.m[entity].m
          /\ "location" \in DOMAIN extras.inner

=============================================================================
